---- MODULE Spec2Model ----
(***************************************************************************)
(* Verification model of the rusty-crust primitives.                       *)
(*                                                                         *)
(*   Mutex   : spin lock on an AtomicBool (three revisions in the tree)    *)
(*   RefCell : run-time borrow state machine with Ref / RefMut guards      *)
(*                                                                         *)
(* Every component has its own specification over the common variables;    *)
(* the variables of the other components stay at their initial values.     *)
(***************************************************************************)
EXTENDS Integers, Sequences, FiniteSets, TLC

(***************************************************************************)
(* Bounds of the model.                                                    *)
(***************************************************************************)
\* number of worker threads spawned by the test harness (N_THREADS, scaled)
NThreads == 2
\* number of with_lock calls each worker makes (N_ITER, scaled)
NIter == 2
\* number of guard slots a client of one RefCell may keep alive at once
MaxGuards == 3
\* largest payload value a client writes through a RefMut guard
MaxValue == 2
\* number of Rc handles a client may keep alive at once
MaxHandles == 3
\* number of inner blocks Rc::new may allocate
MaxBlocks == 2
\* largest value a client stores in a Cell
MaxCellValue == 4
\* number of list nodes the allocator can hand out
MaxNodes == 3
\* largest element a client pushes onto a list
MaxData == 2
\* number of operations a client performs with a second list
MaxOtherOps == 4
\* number of distinct keys a client uses with a LinkedHashMap
MaxKeys == 2
\* largest value a client stores in a LinkedHashMap
MaxMapValue == 2
\* number of bits of the refcount (usize, scaled)
RcWidth == 2

VARIABLES
    \* ---- Mutex -------------------------------------------------------
    rev,        \* which revision of Mutex is compiled
    client,     \* "test": the concurrent_add harness; "loop": callers that never stop
    locked,     \* Mutex.locked : AtomicBool
    hist,       \* every write to Mutex.v in modification order, hist[1] = new(t)
    flagSeen,   \* payload write released together with the last store to locked
    pc,         \* position of each thread inside / outside with_lock
    fn,         \* closure the thread passed to its current call
    tmp,        \* value the closure loaded from *v (the read half of *v += 1)
    rtr,        \* local `rtr` of with_lock: what f returned
    ret,        \* value the thread's last call to with_lock returned
    iter,       \* completed increment calls of the thread
    seen,       \* newest payload write that happens-before the thread's position
    acq,        \* successful compare-exchanges of the thread in its current call
    applied,    \* applications of f in the thread's current call
    stores,     \* unlock stores of the thread in its current call
    spurious,   \* some compare_exchange_weak has failed spuriously
    \* ---- RefCell -----------------------------------------------------
    state,      \* RefCell.state : Cell<RefState>
    value,      \* RefCell.value : UnsafeCell<T>
    guards,     \* the client's guard slots: "none", "Ref" or "RefMut"
    lastOp,     \* the operation performed last
    prevOp,     \* the operation performed before it
    lastRes,    \* what it returned: "Some", "None" or "unit"
    preState,   \* RefCell.state just before that operation
    preGuards,  \* the guard slots just before that operation
    streak,     \* number of consecutive borrow() calls ending at lastOp
    panicked,   \* an unreachable!() of a guard destructor was executed
    preValue,   \* RefCell.value just before the last operation
    conflicts,  \* some borrow or borrow_mut has been refused
    written,    \* value given to RefCell::new or last assigned through a RefMut
    lastRead,   \* what the last dereference of a guard yielded
    \* ---- Rc ----------------------------------------------------------
    blocks,     \* the heap: RcInner blocks, "unalloc", "live" or "freed"
    handles,    \* the client's Rc handles: Rc.inner of each, 0 when not bound
    frees,      \* how often each block has been deallocated
    uaf,        \* a freed block has been read or written
    rcOp,       \* the Rc operation performed last and its operands
    preBlocks,  \* the heap just before that operation
    preHandles, \* the handles just before that operation
    lastDeref,  \* what the last dereference of a handle yielded
    given,      \* the payload Rc::new was given for each block
    origin,     \* how each handle came to be: "new" or "clone"
    leaked,     \* handles of each block that were forgotten without a drop
    \* ---- Cell --------------------------------------------------------
    cellContent, \* Cell.value, the content of the UnsafeCell
    cellOp,     \* the Cell operation performed last
    cellPrevOp, \* the Cell operation performed before that
    cellGot,    \* what the last get returned
    cellPut,    \* the value given to the last set, or to new before any set
    cellPre,    \* Cell.value just before the last operation
    \* ---- DoublyLinkedList --------------------------------------------
    nodes,      \* the heap: Node records by address
    list,       \* the DoublyLinkedList: head, tail, len
    listUb,     \* a node that is not allocated has been dereferenced
    listOp,     \* the list operation performed last
    listRet,    \* what the last pop returned
    preList,    \* the DoublyLinkedList just before the last operation
    model,      \* the reference sequence the same operations produce
    preModel,   \* the reference sequence just before the last operation
    other,      \* a second DoublyLinkedList on the same heap
    otherModel, \* the reference sequence of the second list
    listAt,     \* the index given to the last split_off
    listPanicked, \* split_off has panicked
    otherOps,   \* number of operations that involved the second list
    \* ---- LinkedHashMap -----------------------------------------------
    map,        \* the LinkedHashMap: buckets and entries_count
    hasher,     \* what the map's hasher_builder makes of each key
    mapOp,      \* the map operation performed last and its key
    mapRet,     \* what that operation returned
    mapPanicked, \* an operation of the map has panicked
    mapFirst,   \* the first operation performed on the map
    ref         \* the reference map: the value of each key, None if absent

mutexVars == <<rev, client, locked, hist, flagSeen, pc, fn, tmp, rtr, ret,
               iter, seen, acq, applied, stores, spurious>>
refcellVars == <<state, value, guards, lastOp, prevOp, lastRes, preState, preGuards,
                 streak, panicked, preValue, conflicts, written, lastRead>>
rcVars == <<blocks, handles, frees, uaf, rcOp, preBlocks, preHandles, lastDeref,
           given, origin, leaked>>
cellVars == <<cellContent, cellOp, cellPrevOp, cellGot, cellPut, cellPre>>
listVars == <<nodes, list, listUb, listOp, listRet, preList, model, preModel>>
otherVars == <<other, otherModel, listAt, listPanicked, otherOps>>
mapVars == <<map, hasher, mapOp, mapRet, mapPanicked, mapFirst, ref>>
vars == <<mutexVars, refcellVars, rcVars, cellVars, listVars, otherVars, mapVars>>
nonMutexVars == <<refcellVars, rcVars, cellVars, listVars, otherVars, mapVars>>
nonRefCellVars == <<mutexVars, rcVars, cellVars, listVars, otherVars, mapVars>>
nonRcVars == <<mutexVars, refcellVars, cellVars, listVars, otherVars, mapVars>>
nonCellVars == <<mutexVars, refcellVars, rcVars, listVars, otherVars, mapVars>>
nonListVars == <<mutexVars, refcellVars, rcVars, cellVars, otherVars, mapVars>>
nonListsVars == <<mutexVars, refcellVars, rcVars, cellVars, mapVars>>
nonMapVars == <<mutexVars, refcellVars, rcVars, cellVars, listVars, otherVars>>

Max(a, b) == IF a >= b THEN a ELSE b

(***************************************************************************)
(* Mutex                                                                   *)
(***************************************************************************)
LOCKED == TRUE
UNLOCKED == FALSE

Main == 0
Workers == 1..NThreads
Threads == {Main} \cup Workers

\* The three revisions of Mutex kept in the tree.
Revisions == {"src/atomics/mutex.rs", "atomics/src/lib.rs", "src/lib.rs"}

\* Ordering arguments of compare_exchange_weak and of the unlock store.
SuccessOrdering(r) == IF r = "src/lib.rs" THEN "Relaxed" ELSE "AcqRel"
FailureOrdering(r) == "Relaxed"
StoreOrdering(r) == IF r = "src/lib.rs" THEN "Relaxed" ELSE "Release"

IsAcquire(o) == o \in {"Acquire", "AcqRel", "SeqCst"}
IsRelease(o) == o \in {"Release", "AcqRel", "SeqCst"}

\* Mutex::new
MutexNew(t) == [locked |-> UNLOCKED, v |-> t]

\* compare_exchange_weak(UNLOCKED, LOCKED, ..) can succeed only on UNLOCKED.
CasNeverSucceeds(current) == FALSE
CasAlwaysSucceeds(current) == TRUE
CasMaySucceed(current) == current = UNLOCKED

\* What the last statement of with_lock stores into the flag.
StoreKeepsLocked == LOCKED
StoreValue == UNLOCKED

\* Values of the closures' result type R: nothing yet, (), or a payload.
NoValue == [tag |-> "none", v |-> 0]
Unit == [tag |-> "unit", v |-> 0]
Val(n) == [tag |-> "val", v |-> n]

\* What with_lock returns, given its local rtr.
ReturnUnit(r) == Unit
WithLockReturn(r) == r

\* The closures the callers pass: the workers of the test harness |v| *v += 1,
\* its main thread and the endless callers |v| *v.
ClosureOf(t) == IF t = Main \/ client = "loop" THEN "get" ELSE "inc"

InitMutex ==
    /\ rev \in Revisions
    /\ client \in {"test", "loop"}
    /\ locked = MutexNew(0).locked
    /\ hist = <<MutexNew(0).v>>
    /\ flagSeen = 1
    /\ pc = [t \in Threads |-> IF t = Main THEN "join" ELSE "idle"]
    /\ fn = [t \in Threads |-> "none"]
    /\ tmp = [t \in Threads |-> 0]
    /\ rtr = [t \in Threads |-> NoValue]
    /\ ret = [t \in Threads |-> NoValue]
    /\ iter = [t \in Threads |-> 0]
    /\ seen = [t \in Threads |-> 1]
    /\ acq = [t \in Threads |-> 0]
    /\ applied = [t \in Threads |-> 0]
    /\ stores = [t \in Threads |-> 0]
    /\ spurious = FALSE

\* for h in handles { h.join().unwrap() }: joining synchronises with the end
\* of every worker, so all their writes happen-before the main thread's read.
Join ==
    /\ client = "test"
    /\ pc[Main] = "join"
    /\ \A w \in Workers : pc[w] = "done"
    /\ pc' = [pc EXCEPT ![Main] = "idle"]
    /\ seen' = [seen EXCEPT ![Main] = Len(hist)]
    /\ UNCHANGED <<rev, client, locked, hist, flagSeen, fn, tmp, rtr, ret, iter,
                   acq, applied, stores, spurious>>

\* A thread enters with_lock.
Call(t) ==
    /\ pc[t] = "idle"
    /\ pc' = [pc EXCEPT ![t] = "cas"]
    /\ fn' = [fn EXCEPT ![t] = ClosureOf(t)]
    /\ acq' = [acq EXCEPT ![t] = 0]
    /\ applied' = [applied EXCEPT ![t] = 0]
    /\ stores' = [stores EXCEPT ![t] = 0]
    /\ rtr' = [rtr EXCEPT ![t] = NoValue]
    /\ ret' = [ret EXCEPT ![t] = NoValue]
    /\ UNCHANGED <<rev, client, locked, hist, flagSeen, tmp, iter, seen, spurious>>

\* compare_exchange_weak succeeds: the flag goes UNLOCKED -> LOCKED and, with
\* an acquire ordering, everything released with the flag becomes visible.
CasSuccess(t) ==
    /\ pc[t] = "cas"
    /\ CasMaySucceed(locked)
    /\ locked' = LOCKED
    /\ seen' = [seen EXCEPT ![t] = IF IsAcquire(SuccessOrdering(rev))
                                     THEN Max(seen[t], flagSeen) ELSE seen[t]]
    /\ acq' = [acq EXCEPT ![t] = acq[t] + 1]
    /\ pc' = [pc EXCEPT ![t] = "f"]
    /\ UNCHANGED <<rev, client, hist, flagSeen, fn, tmp, rtr, ret, iter,
                   applied, stores, spurious>>

\* compare_exchange_weak fails because the flag is LOCKED.
CasFail(t) ==
    /\ pc[t] = "cas"
    /\ locked = LOCKED
    /\ pc' = [pc EXCEPT ![t] = "spin"]
    /\ UNCHANGED <<rev, client, locked, hist, flagSeen, fn, tmp, rtr, ret, iter,
                   seen, acq, applied, stores, spurious>>

\* compare_exchange_weak fails although the flag is UNLOCKED.
CasSpurious(t) ==
    /\ pc[t] = "cas"
    /\ locked = UNLOCKED
    /\ pc' = [pc EXCEPT ![t] = "spin"]
    /\ spurious' = TRUE
    /\ UNCHANGED <<rev, client, locked, hist, flagSeen, fn, tmp, rtr, ret, iter,
                   seen, acq, applied, stores>>

\* while self.locked.load(Relaxed) == LOCKED { spin_loop() }
\* (a stale value read by the relaxed load only delays the thread or sends it
\* to a compare-exchange that fails, both of which the actions already allow)
SpinLoadClearsFlag(t) ==
    /\ pc[t] = "spin"
    /\ pc' = [pc EXCEPT ![t] = "cas"]
    /\ locked' = UNLOCKED
    /\ UNCHANGED <<rev, client, hist, flagSeen, fn, tmp, rtr, ret, iter,
                   seen, acq, applied, stores, spurious>>
SpinLoad(t) ==
    /\ pc[t] = "spin"
    /\ pc' = [pc EXCEPT ![t] = IF locked = LOCKED THEN "spin" ELSE "cas"]
    /\ UNCHANGED <<rev, client, locked, hist, flagSeen, fn, tmp, rtr, ret, iter,
                   seen, acq, applied, stores, spurious>>

\* f(&mut *self.v.get()) for f = |v| *v += 1, first half: load *v.  A load
\* that is not ordered after the newest write may return any write from the
\* newest one it is ordered after onwards.
FIncLoad(t) ==
    /\ pc[t] = "f"
    /\ fn[t] = "inc"
    /\ \E i \in seen[t]..Len(hist) :
          /\ tmp' = [tmp EXCEPT ![t] = hist[i]]
          /\ seen' = [seen EXCEPT ![t] = i]
    /\ applied' = [applied EXCEPT ![t] = applied[t] + 1]
    /\ pc' = [pc EXCEPT ![t] = "f_store"]
    /\ UNCHANGED <<rev, client, locked, hist, flagSeen, fn, rtr, ret, iter,
                   acq, stores, spurious>>

\* second half of *v += 1: store the sum; the closure returns ().
FIncStore(t) ==
    /\ pc[t] = "f_store"
    /\ hist' = Append(hist, tmp[t] + 1)
    /\ seen' = [seen EXCEPT ![t] = Len(hist) + 1]
    /\ rtr' = [rtr EXCEPT ![t] = Unit]
    /\ pc' = [pc EXCEPT ![t] = "store"]
    /\ UNCHANGED <<rev, client, locked, flagSeen, fn, tmp, ret, iter,
                   acq, applied, stores, spurious>>

\* f(&mut *self.v.get()) for f = |v| *v: the closure returns the payload.
FGet(t) ==
    /\ pc[t] = "f"
    /\ fn[t] = "get"
    /\ \E i \in seen[t]..Len(hist) :
          /\ rtr' = [rtr EXCEPT ![t] = Val(hist[i])]
          /\ seen' = [seen EXCEPT ![t] = i]
    /\ applied' = [applied EXCEPT ![t] = applied[t] + 1]
    /\ pc' = [pc EXCEPT ![t] = "store"]
    /\ UNCHANGED <<rev, client, locked, hist, flagSeen, fn, tmp, ret, iter,
                   acq, stores, spurious>>

\* self.locked.store(UNLOCKED, ..); rtr
\* A release store publishes the writes the thread has made or seen; a relaxed
\* store publishes none.  In the test harness a worker ends after NIter calls
\* and the main thread after its single read; a looping caller goes on.
Unlock(t) ==
    /\ pc[t] = "store"
    /\ locked' = StoreValue
    /\ flagSeen' = IF IsRelease(StoreOrdering(rev)) THEN seen[t] ELSE 1
    /\ stores' = [stores EXCEPT ![t] = stores[t] + 1]
    /\ ret' = [ret EXCEPT ![t] = WithLockReturn(rtr[t])]
    /\ iter' = [iter EXCEPT ![t] = IF fn[t] = "inc" THEN iter[t] + 1 ELSE iter[t]]
    /\ pc' = [pc EXCEPT ![t] =
                IF client = "test" /\ (t = Main \/ iter'[t] >= NIter)
                THEN "done" ELSE "idle"]
    /\ UNCHANGED <<rev, client, hist, fn, tmp, rtr, seen, acq, applied, spurious>>

ThreadStep(t) ==
    \/ t = Main /\ Join
    \/ Call(t)
    \/ CasSuccess(t)
    \/ CasFail(t)
    \/ CasSpurious(t)
    \/ SpinLoad(t)
    \/ FIncLoad(t)
    \/ FIncStore(t)
    \/ FGet(t)
    \/ Unlock(t)

NextMutex ==
    \/ Join /\ UNCHANGED nonMutexVars
    \/ \E t \in Threads : Call(t) /\ UNCHANGED nonMutexVars
    \/ \E t \in Threads : CasSuccess(t) /\ UNCHANGED nonMutexVars
    \/ \E t \in Threads : CasFail(t) /\ UNCHANGED nonMutexVars
    \/ \E t \in Threads : CasSpurious(t) /\ UNCHANGED nonMutexVars
    \/ \E t \in Threads : SpinLoad(t) /\ UNCHANGED nonMutexVars
    \/ \E t \in Threads : FIncLoad(t) /\ UNCHANGED nonMutexVars
    \/ \E t \in Threads : FIncStore(t) /\ UNCHANGED nonMutexVars
    \/ \E t \in Threads : FGet(t) /\ UNCHANGED nonMutexVars
    \/ \E t \in Threads : Unlock(t) /\ UNCHANGED nonMutexVars

\* f(&mut *self.v.get()) for a closure that panics: the unwinding leaves
\* with_lock at line 61, the store of line 62 is not executed and the thread
\* ends.  with_lock holds no guard whose destructor would store UNLOCKED.
FPanicUnlocks(t) ==
    /\ pc[t] = "f"
    /\ applied' = [applied EXCEPT ![t] = applied[t] + 1]
    /\ pc' = [pc EXCEPT ![t] = "unwound"]
    /\ locked' = UNLOCKED
    /\ UNCHANGED <<rev, client, hist, flagSeen, fn, tmp, rtr, ret, iter,
                   seen, acq, stores, spurious>>
FPanic(t) ==
    /\ pc[t] = "f"
    /\ applied' = [applied EXCEPT ![t] = applied[t] + 1]
    /\ pc' = [pc EXCEPT ![t] = "unwound"]
    /\ UNCHANGED <<rev, client, locked, hist, flagSeen, fn, tmp, rtr, ret, iter,
                   seen, acq, stores, spurious>>

\* callers whose closures may panic
NextMutexPanic ==
    \/ NextMutex
    \/ \E t \in Threads : FPanic(t) /\ UNCHANGED nonMutexVars

\* f(&mut *self.v.get()) for a closure that calls with_lock on the same Mutex:
\* the thread enters the loop of lines 31-51 again while its outer call is
\* suspended at line 61.  The counters of the outer call are kept; fn records
\* that the thread is in the nested call.
NestedCall(t) ==
    /\ pc[t] = "f"
    /\ fn[t] # "inner"
    /\ applied' = [applied EXCEPT ![t] = applied[t] + 1]
    /\ fn' = [fn EXCEPT ![t] = "inner"]
    /\ pc' = [pc EXCEPT ![t] = "cas"]
    /\ UNCHANGED <<rev, client, locked, hist, flagSeen, tmp, rtr, ret, iter,
                   seen, acq, stores, spurious>>

\* callers whose closures may call with_lock on the Mutex they hold
NextMutexNested ==
    \/ NextMutex
    \/ \E t \in Threads : NestedCall(t) /\ UNCHANGED nonMutexVars

(***************************************************************************)
(* RefCell                                                                 *)
(***************************************************************************)
\* enum RefState { Unshared, Shared(usize), Exclusive }
Unshared == [tag |-> "Unshared", n |-> 0]
Shared(n) == [tag |-> "Shared", n |-> n]
Exclusive == [tag |-> "Exclusive", n |-> 0]

Slots == 1..MaxGuards
Values == 0..MaxValue
NoGuards == [g \in Slots |-> "none"]
Live(gs, kind) == {g \in Slots : gs[g] = kind}

\* RefCell::new
RefCellNew(v) == [value |-> v, state |-> Unshared]

\* RefCell::borrow: the new state and whether a Ref is returned.
BorrowForgetsCount(st) ==
    CASE st.tag = "Unshared" -> [state |-> Shared(1), res |-> "Some"]
      [] st.tag = "Shared" -> [state |-> st, res |-> "Some"]
      [] st.tag = "Exclusive" -> [state |-> st, res |-> "None"]
BorrowIgnoresExclusive(st) ==
    CASE st.tag = "Unshared" -> [state |-> Shared(1), res |-> "Some"]
      [] st.tag = "Shared" -> [state |-> Shared(st.n + 1), res |-> "Some"]
      [] st.tag = "Exclusive" -> [state |-> Shared(1), res |-> "Some"]
BorrowOp(st) ==
    CASE st.tag = "Unshared" -> [state |-> Shared(1), res |-> "Some"]
      [] st.tag = "Shared" -> [state |-> Shared(st.n + 1), res |-> "Some"]
      [] st.tag = "Exclusive" -> [state |-> st, res |-> "None"]

\* RefCell::borrow_mut: the new state and whether a RefMut is returned.
BorrowMutUnlessExclusive(st) ==
    IF st.tag # "Exclusive"
    THEN [state |-> Exclusive, res |-> "Some"]
    ELSE [state |-> st, res |-> "None"]
BorrowMutClobbersOnConflict(st) ==
    IF st.tag = "Unshared"
    THEN [state |-> Exclusive, res |-> "Some"]
    ELSE [state |-> Exclusive, res |-> "None"]
BorrowMutOp(st) ==
    IF st.tag = "Unshared"
    THEN [state |-> Exclusive, res |-> "Some"]
    ELSE [state |-> st, res |-> "None"]

\* <Ref as Drop>::drop: the new state, or the unreachable!() panic.
DropRefKeepsCount(st) ==
    CASE st.tag = "Shared" /\ st.n = 1 -> [state |-> Unshared, panic |-> FALSE]
      [] st.tag = "Shared" /\ st.n # 1 -> [state |-> st, panic |-> FALSE]
      [] OTHER -> [state |-> st, panic |-> TRUE]
DropRefOp(st) ==
    CASE st.tag = "Shared" /\ st.n = 1 -> [state |-> Unshared, panic |-> FALSE]
      [] st.tag = "Shared" /\ st.n # 1 -> [state |-> Shared(st.n - 1), panic |-> FALSE]
      [] OTHER -> [state |-> st, panic |-> TRUE]

\* <RefMut as Drop>::drop: the new state, or the unreachable!() panic.
DropRefMutKeepsExclusive(st) == [state |-> st, panic |-> st.tag # "Exclusive"]
DropRefMutOp(st) ==
    IF st.tag = "Exclusive"
    THEN [state |-> Unshared, panic |-> FALSE]
    ELSE [state |-> st, panic |-> TRUE]

\* <Ref as Deref>::deref, <RefMut as Deref>::deref: &*self.refcell.value.get()
DerefYieldsInitial(cellValue) == RefCellNew(0).value
DerefOp(cellValue) == cellValue

\* <RefMut as DerefMut>::deref_mut followed by an assignment of v
DerefMutAssign(cellValue, v) == v

InitRefCell ==
    /\ state = RefCellNew(0).state
    /\ value = RefCellNew(0).value
    /\ guards = NoGuards
    /\ lastOp = "new"
    /\ prevOp = "new"
    /\ lastRes = "unit"
    /\ preState = Unshared
    /\ preGuards = NoGuards
    /\ streak = 0
    /\ panicked = FALSE
    /\ preValue = RefCellNew(0).value
    /\ conflicts = FALSE
    /\ written = 0
    /\ lastRead = 0

\* let c = cell.borrow(); a returned Ref is kept in a free slot of the client.
Borrow ==
    /\ ~panicked
    /\ LET r == BorrowOp(state) IN
          /\ state' = r.state
          /\ lastRes' = r.res
          /\ IF r.res = "Some"
             THEN \E g \in Live(guards, "none") : guards' = [guards EXCEPT ![g] = "Ref"]
             ELSE guards' = guards
    /\ lastOp' = "borrow"
    /\ prevOp' = lastOp
    /\ preState' = state
    /\ preGuards' = guards
    /\ streak' = IF state = Unshared THEN 1
                 ELSE IF streak > 0 THEN streak + 1 ELSE 0
    /\ preValue' = value
    /\ conflicts' = (conflicts \/ BorrowOp(state).res = "None")
    /\ UNCHANGED <<value, panicked, written, lastRead>>

\* let c = cell.borrow_mut(); a returned RefMut is kept in a free slot.
BorrowMut ==
    /\ ~panicked
    /\ LET r == BorrowMutOp(state) IN
          /\ state' = r.state
          /\ lastRes' = r.res
          /\ IF r.res = "Some"
             THEN \E g \in Live(guards, "none") : guards' = [guards EXCEPT ![g] = "RefMut"]
             ELSE guards' = guards
    /\ lastOp' = "borrow_mut"
    /\ prevOp' = lastOp
    /\ preState' = state
    /\ preGuards' = guards
    /\ preValue' = value
    /\ conflicts' = (conflicts \/ BorrowMutOp(state).res = "None")
    /\ UNCHANGED <<value, streak, panicked, written, lastRead>>

\* drop(c) for a live Ref
DropRef(g) ==
    /\ ~panicked
    /\ guards[g] = "Ref"
    /\ LET r == DropRefOp(state) IN
          /\ state' = r.state
          /\ panicked' = r.panic
    /\ guards' = [guards EXCEPT ![g] = "none"]
    /\ lastOp' = "drop_ref"
    /\ prevOp' = lastOp
    /\ lastRes' = "unit"
    /\ preState' = state
    /\ preGuards' = guards
    /\ streak' = 0
    /\ preValue' = value
    /\ UNCHANGED <<value, conflicts, written, lastRead>>

\* drop(c) for a live RefMut
DropRefMut(g) ==
    /\ ~panicked
    /\ guards[g] = "RefMut"
    /\ LET r == DropRefMutOp(state) IN
          /\ state' = r.state
          /\ panicked' = r.panic
    /\ guards' = [guards EXCEPT ![g] = "none"]
    /\ lastOp' = "drop_mut"
    /\ prevOp' = lastOp
    /\ lastRes' = "unit"
    /\ preState' = state
    /\ preGuards' = guards
    /\ streak' = 0
    /\ preValue' = value
    /\ UNCHANGED <<value, conflicts, written, lastRead>>

\* *c = v through a live RefMut (DerefMut)
DerefMutWrite(g, v) ==
    /\ ~panicked
    /\ guards[g] = "RefMut"
    /\ value' = DerefMutAssign(value, v)
    /\ written' = v
    /\ lastOp' = "write"
    /\ prevOp' = lastOp
    /\ lastRes' = "unit"
    /\ preState' = state
    /\ preGuards' = guards
    /\ preValue' = value
    /\ UNCHANGED <<state, guards, streak, panicked, conflicts, lastRead>>

\* *c through a live Ref or RefMut (Deref)
DerefRead(g) ==
    /\ ~panicked
    /\ guards[g] \in {"Ref", "RefMut"}
    /\ lastRead' = DerefOp(value)
    /\ lastOp' = "read"
    /\ prevOp' = lastOp
    /\ lastRes' = "unit"
    /\ preState' = state
    /\ preGuards' = guards
    /\ preValue' = value
    /\ UNCHANGED <<state, value, guards, streak, panicked, conflicts, written>>

NextRefCell ==
    \/ Borrow /\ UNCHANGED nonRefCellVars
    \/ BorrowMut /\ UNCHANGED nonRefCellVars
    \/ \E g \in Slots : DropRef(g) /\ UNCHANGED nonRefCellVars
    \/ \E g \in Slots : DropRefMut(g) /\ UNCHANGED nonRefCellVars
    \/ \E g \in Slots, v \in Values : DerefMutWrite(g, v) /\ UNCHANGED nonRefCellVars
    \/ \E g \in Slots : DerefRead(g) /\ UNCHANGED nonRefCellVars

(***************************************************************************)
(* Rc                                                                      *)
(***************************************************************************)
HandleSlots == 1..MaxHandles
BlockIds == 1..MaxBlocks
\* Rc.inner of a slot that holds no handle
NoHandle == 0

\* memory that Box::new has not handed out yet
Unallocated == [st |-> "unalloc", value |-> 0, refcount |-> 0]

\* Rc::new: Box::new(RcInner { value, refcount: Cell::new(1) })
RcNewInnerZero(v) == [st |-> "live", value |-> v, refcount |-> 0]
RcNewInner(v) == [st |-> "live", value |-> v, refcount |-> 1]

\* usize arithmetic without overflow checks wraps at 2^RcWidth
RcModulus == 2 ^ RcWidth

\* Clone: inner.refcount.set(inner.refcount.get() + 1)
CloneKeepsCount(refcount) == refcount
CloneSaturates(refcount) ==
    IF refcount = RcModulus - 1 THEN refcount ELSE refcount + 1
CloneCount(refcount) == (refcount + 1) % RcModulus

\* Drop: if refcount == 1 { Box::from_raw(..) }
DeallocNever(refcount) == FALSE
DeallocAtTwo(refcount) == refcount <= 2
ShouldDealloc(refcount) == refcount = 1

\* Drop: else { inner.refcount.set(refcount - 1) }
DropCountByTwo(refcount) == (refcount - 2) % RcModulus
DropCount(refcount) == (refcount - 1) % RcModulus

\* Deref: &inner.value
RcDerefOp(inner) == inner.value

HandlesOf(hs, b) == {h \in HandleSlots : hs[h] = b}
UnallocBlocks(bs) == {b \in BlockIds : bs[b].st = "unalloc"}

InitRc ==
    /\ blocks = [b \in BlockIds |-> Unallocated]
    /\ handles = [h \in HandleSlots |-> NoHandle]
    /\ frees = [b \in BlockIds |-> 0]
    /\ uaf = FALSE
    /\ rcOp = [op |-> "none", src |-> 0, dst |-> 0, v |-> 0]
    /\ preBlocks = [b \in BlockIds |-> Unallocated]
    /\ preHandles = [h \in HandleSlots |-> NoHandle]
    /\ lastDeref = 0
    /\ given = [b \in BlockIds |-> 0]
    /\ origin = [h \in HandleSlots |-> "none"]
    /\ leaked = [b \in BlockIds |-> 0]

\* let a = Rc::new(v): a fresh block from the allocator, one handle to it
RcNew(h, v) ==
    /\ handles[h] = NoHandle
    /\ UnallocBlocks(blocks) # {}
    /\ LET b == CHOOSE x \in UnallocBlocks(blocks) :
                    \A y \in UnallocBlocks(blocks) : x <= y IN
          /\ blocks' = [blocks EXCEPT ![b] = RcNewInner(v)]
          /\ handles' = [handles EXCEPT ![h] = b]
          /\ given' = [given EXCEPT ![b] = v]
          /\ rcOp' = [op |-> "new", src |-> 0, dst |-> h, v |-> v]
    /\ origin' = [origin EXCEPT ![h] = "new"]
    /\ preBlocks' = blocks
    /\ preHandles' = handles
    /\ UNCHANGED <<frees, uaf, lastDeref, leaked>>

\* let b = a.clone(): the count of a's block goes up, b aliases the block.
\* Through a dangling handle the count is written into freed memory.
RcClone(h, h2) ==
    /\ handles[h] # NoHandle
    /\ handles[h2] = NoHandle
    /\ LET b == handles[h] IN
          /\ blocks' = [blocks EXCEPT ![b].refcount = CloneCount(blocks[b].refcount)]
          /\ uaf' = (uaf \/ blocks[b].st # "live")
    /\ handles' = [handles EXCEPT ![h2] = handles[h]]
    /\ origin' = [origin EXCEPT ![h2] = "clone"]
    /\ rcOp' = [op |-> "clone", src |-> h, dst |-> h2, v |-> 0]
    /\ preBlocks' = blocks
    /\ preHandles' = handles
    /\ UNCHANGED <<frees, lastDeref, given, leaked>>

\* drop(a): the last handle deallocates the block, any other one decrements
\* the count.  Through a dangling handle the count read is whatever the freed
\* memory holds.
RcDrop(h) ==
    /\ handles[h] # NoHandle
    /\ LET b == handles[h] IN
       \E refcount \in IF blocks[b].st = "live"
                       THEN {blocks[b].refcount} ELSE 0..MaxHandles :
          /\ uaf' = (uaf \/ blocks[b].st # "live")
          /\ IF ShouldDealloc(refcount)
             THEN /\ blocks' = [blocks EXCEPT ![b].st = "freed"]
                  /\ frees' = [frees EXCEPT ![b] = frees[b] + 1]
             ELSE /\ blocks' = [blocks EXCEPT ![b].refcount = DropCount(refcount)]
                  /\ frees' = frees
    /\ handles' = [handles EXCEPT ![h] = NoHandle]
    /\ origin' = [origin EXCEPT ![h] = "none"]
    /\ rcOp' = [op |-> "drop", src |-> h, dst |-> 0, v |-> 0]
    /\ preBlocks' = blocks
    /\ preHandles' = handles
    /\ UNCHANGED <<lastDeref, given, leaked>>

\* *a: the payload of the block; of a freed block, whatever the memory holds
RcDeref(h) ==
    /\ handles[h] # NoHandle
    /\ LET b == handles[h] IN
          /\ uaf' = (uaf \/ blocks[b].st # "live")
          /\ IF blocks[b].st = "live"
             THEN lastDeref' = RcDerefOp(blocks[b])
             ELSE lastDeref' \in 0..MaxValue
    /\ rcOp' = [op |-> "deref", src |-> h, dst |-> 0, v |-> 0]
    /\ preBlocks' = blocks
    /\ preHandles' = handles
    /\ UNCHANGED <<blocks, handles, frees, given, origin, leaked>>

NextRc ==
    \/ \E h \in HandleSlots, v \in Values : RcNew(h, v) /\ UNCHANGED nonRcVars
    \/ \E h, h2 \in HandleSlots : RcClone(h, h2) /\ UNCHANGED nonRcVars
    \/ \E h \in HandleSlots : RcDrop(h) /\ UNCHANGED nonRcVars
    \/ \E h \in HandleSlots : RcDeref(h) /\ UNCHANGED nonRcVars

\* std::mem::forget(a): the handle goes away and <Rc as Drop>::drop does not
\* run, so the count of its block stays as it is.  A client leaks at most
\* 2^RcWidth handles of a block.
RcForgetDecrements(h) ==
    /\ handles[h] # NoHandle
    /\ leaked[handles[h]] < RcModulus
    /\ blocks[handles[h]].st = "live"
    /\ blocks' = [blocks EXCEPT ![handles[h]].refcount = DropCount(@)]
    /\ leaked' = [leaked EXCEPT ![handles[h]] = @ + 1]
    /\ handles' = [handles EXCEPT ![h] = NoHandle]
    /\ origin' = [origin EXCEPT ![h] = "none"]
    /\ rcOp' = [op |-> "forget", src |-> h, dst |-> 0, v |-> 0]
    /\ preBlocks' = blocks
    /\ preHandles' = handles
    /\ UNCHANGED <<frees, uaf, lastDeref, given>>
RcForget(h) ==
    /\ handles[h] # NoHandle
    /\ leaked[handles[h]] < RcModulus
    /\ blocks[handles[h]].st = "live"
    /\ leaked' = [leaked EXCEPT ![handles[h]] = @ + 1]
    /\ handles' = [handles EXCEPT ![h] = NoHandle]
    /\ origin' = [origin EXCEPT ![h] = "none"]
    /\ rcOp' = [op |-> "forget", src |-> h, dst |-> 0, v |-> 0]
    /\ preBlocks' = blocks
    /\ preHandles' = handles
    /\ UNCHANGED <<blocks, frees, uaf, lastDeref, given>>

\* the run is followed up to the first use of a freed block
RcRunning == ~uaf

\* a client that may also leak handles
NextRcLeak ==
    \/ \E h \in HandleSlots, v \in Values : RcRunning /\ RcNew(h, v) /\ UNCHANGED nonRcVars
    \/ \E h, h2 \in HandleSlots : RcRunning /\ RcClone(h, h2) /\ UNCHANGED nonRcVars
    \/ \E h \in HandleSlots : RcRunning /\ RcDrop(h) /\ UNCHANGED nonRcVars
    \/ \E h \in HandleSlots : RcRunning /\ RcDeref(h) /\ UNCHANGED nonRcVars
    \/ \E h \in HandleSlots : RcRunning /\ RcForget(h) /\ UNCHANGED nonRcVars

(***************************************************************************)
(* Cell                                                                    *)
(***************************************************************************)
CellValues == 0..MaxCellValue

\* Cell::new: Cell { value: UnsafeCell::new(value) }
CellNewOp(v) == v

\* Cell::set: *self.value.get() = value
CellSetKeepsOld(old, v) == old
CellSetOp(old, v) == v

\* Cell::get: *self.value.get(), a copy of the content
CellGetZero(content) == 0
CellGetOp(content) == content

InitCell ==
    /\ cellContent = CellNewOp(0)
    /\ cellOp = "new"
    /\ cellPrevOp = "none"
    /\ cellGot = 0
    /\ cellPut = 0
    /\ cellPre = 0

\* let cell = Cell::new(v)
CellNew(v) ==
    /\ cellContent' = CellNewOp(v)
    /\ cellOp' = "new"
    /\ cellPrevOp' = cellOp
    /\ cellPut' = v
    /\ cellPre' = cellContent
    /\ UNCHANGED cellGot

\* cell.set(v)
CellSet(v) ==
    /\ cellContent' = CellSetOp(cellContent, v)
    /\ cellOp' = "set"
    /\ cellPrevOp' = cellOp
    /\ cellPut' = v
    /\ cellPre' = cellContent
    /\ UNCHANGED cellGot

\* cell.get()
CellGet ==
    /\ cellGot' = CellGetOp(cellContent)
    /\ cellOp' = "get"
    /\ cellPrevOp' = cellOp
    /\ cellPre' = cellContent
    /\ UNCHANGED <<cellContent, cellPut>>

NextCell ==
    \/ \E v \in CellValues : CellNew(v) /\ UNCHANGED nonCellVars
    \/ \E v \in CellValues : CellSet(v) /\ UNCHANGED nonCellVars
    \/ CellGet /\ UNCHANGED nonCellVars

(***************************************************************************)
(* DoublyLinkedList                                                        *)
(***************************************************************************)
NodeIds == 1..MaxNodes
ListData == 1..MaxData
\* Option<NonNull<Node<T>>>::None
Null == 0
\* Option<T>
None == [some |-> FALSE, v |-> 0]
Some(v) == [some |-> TRUE, v |-> v]

\* what a pop can return; what it returns after reading freed memory
Options == {None} \cup {Some(d) : d \in ListData}

\* memory that holds no Node
FreeNode == [alloc |-> FALSE, prev |-> Null, next |-> Null, data |-> 0]
FreeNodes(ns) == {n \in NodeIds : ~ns[n].alloc}
\* dereferencing p is defined only while p is the address of a Node
Dangling(ns, p) == p # Null /\ ~ns[p].alloc

\* DoublyLinkedList::default
ListNew == [head |-> Null, tail |-> Null, len |-> 0]

IsEmpty(l) == l.len = 0
ListLen(l) == l.len

\* push_front(data), where Box::new places the node at address n
PushFrontOp(l, ns, n, d) ==
    LET ns1 == [ns EXCEPT ![n] = [alloc |-> TRUE, prev |-> Null,
                                  next |-> l.head, data |-> d]]
    IN [list  |-> [head |-> n,
                   tail |-> IF l.head = Null THEN n ELSE l.tail,
                   len  |-> l.len + 1],
        nodes |-> IF l.head = Null THEN ns1
                  ELSE [ns1 EXCEPT ![l.head].prev = n],
        ub    |-> Dangling(ns, l.head)]

\* pop_front(); a len of -1 stands for the wrapped usize
PopFrontKeepsLen(l, ns) ==
    IF l.head = Null
    THEN [list |-> l, nodes |-> ns, ret |-> None, ub |-> FALSE]
    ELSE LET head == ns[l.head]
             ns1 == IF head.next = Null THEN ns
                    ELSE [ns EXCEPT ![head.next].prev = Null]
         IN [list  |-> [head |-> head.next,
                        tail |-> IF head.next = Null THEN Null ELSE l.tail,
                        len  |-> l.len],
             nodes |-> [ns1 EXCEPT ![l.head] = FreeNode],
             ret   |-> Some(head.data),
             ub    |-> Dangling(ns, l.head) \/ Dangling(ns, head.next)]
PopFrontOp(l, ns) ==
    IF l.head = Null
    THEN [list |-> l, nodes |-> ns, ret |-> None, ub |-> FALSE]
    ELSE LET head == ns[l.head]
             ns1 == IF head.next = Null THEN ns
                    ELSE [ns EXCEPT ![head.next].prev = Null]
         IN [list  |-> [head |-> head.next,
                        tail |-> IF head.next = Null THEN Null ELSE l.tail,
                        len  |-> l.len - 1],
             nodes |-> [ns1 EXCEPT ![l.head] = FreeNode],
             ret   |-> Some(head.data),
             ub    |-> Dangling(ns, l.head) \/ Dangling(ns, head.next)]

\* push_back(data), where Box::new places the node at address n
PushBackForgetsHead(l, ns, n, d) ==
    LET ns1 == [ns EXCEPT ![n] = [alloc |-> TRUE, prev |-> l.tail,
                                  next |-> Null, data |-> d]]
    IN [list  |-> [head |-> l.head, tail |-> n, len |-> l.len + 1],
        nodes |-> IF l.tail = Null THEN ns1
                  ELSE [ns1 EXCEPT ![l.tail].next = n],
        ub    |-> Dangling(ns, l.tail)]
PushBackOp(l, ns, n, d) ==
    LET ns1 == [ns EXCEPT ![n] = [alloc |-> TRUE, prev |-> l.tail,
                                  next |-> Null, data |-> d]]
    IN [list  |-> [head |-> IF l.tail = Null THEN n ELSE l.head,
                   tail |-> n,
                   len  |-> l.len + 1],
        nodes |-> IF l.tail = Null THEN ns1
                  ELSE [ns1 EXCEPT ![l.tail].next = n],
        ub    |-> Dangling(ns, l.tail)]

\* pop_back()
PopBackOp(l, ns) ==
    IF l.tail = Null
    THEN [list |-> l, nodes |-> ns, ret |-> None, ub |-> FALSE]
    ELSE LET tail == ns[l.tail]
             ns1 == IF tail.prev = Null THEN ns
                    ELSE [ns EXCEPT ![tail.prev].next = Null]
         IN [list  |-> [head |-> IF tail.prev = Null THEN Null ELSE l.head,
                        tail |-> tail.prev,
                        len  |-> l.len - 1],
             nodes |-> [ns1 EXCEPT ![l.tail] = FreeNode],
             ret   |-> Some(tail.data),
             ub    |-> Dangling(ns, l.tail) \/ Dangling(ns, tail.prev)]

\* the reference double-ended queue: a sequence, front first
RefPushFront(s, d) == <<d>> \o s
RefPushBack(s, d) == Append(s, d)
RefPopFront(s) ==
    IF s = <<>> THEN [seq |-> s, ret |-> None]
    ELSE [seq |-> Tail(s), ret |-> Some(Head(s))]
RefPopBack(s) ==
    IF s = <<>> THEN [seq |-> s, ret |-> None]
    ELSE [seq |-> SubSeq(s, 1, Len(s) - 1), ret |-> Some(s[Len(s)])]

InitList ==
    /\ nodes = [n \in NodeIds |-> FreeNode]
    /\ list = ListNew
    /\ listUb = FALSE
    /\ listOp = "new"
    /\ listRet = None
    /\ preList = ListNew
    /\ model = <<>>
    /\ preModel = <<>>

PushFront(d) ==
    \E n \in FreeNodes(nodes) :
        LET r == PushFrontOp(list, nodes, n, d) IN
           /\ list' = r.list
           /\ nodes' = r.nodes
           /\ listUb' = (listUb \/ r.ub)
           /\ listOp' = "push_front"
           /\ preList' = list
           /\ model' = RefPushFront(model, d)
           /\ preModel' = model
           /\ UNCHANGED listRet

PushBack(d) ==
    \E n \in FreeNodes(nodes) :
        LET r == PushBackOp(list, nodes, n, d) IN
           /\ list' = r.list
           /\ nodes' = r.nodes
           /\ listUb' = (listUb \/ r.ub)
           /\ listOp' = "push_back"
           /\ preList' = list
           /\ model' = RefPushBack(model, d)
           /\ preModel' = model
           /\ UNCHANGED listRet

PopFront ==
    LET r == PopFrontOp(list, nodes) IN
       /\ list' = r.list
       /\ nodes' = r.nodes
       /\ listUb' = (listUb \/ r.ub)
       /\ listRet' \in IF r.ub THEN Options ELSE {r.ret}
       /\ listOp' = "pop_front"
       /\ preList' = list
       /\ model' = RefPopFront(model).seq
       /\ preModel' = model

PopBack ==
    LET r == PopBackOp(list, nodes) IN
       /\ list' = r.list
       /\ nodes' = r.nodes
       /\ listUb' = (listUb \/ r.ub)
       /\ listRet' \in IF r.ub THEN Options ELSE {r.ret}
       /\ listOp' = "pop_back"
       /\ preList' = list
       /\ model' = RefPopBack(model).seq
       /\ preModel' = model

NextList ==
    \/ \E d \in ListData : PushFront(d) /\ UNCHANGED nonListVars
    \/ \E d \in ListData : PushBack(d) /\ UNCHANGED nonListVars
    \/ PopFront /\ UNCHANGED nonListVars
    \/ PopBack /\ UNCHANGED nonListVars

(***************************************************************************)
(* DoublyLinkedList: append, split_off and the observers                   *)
(***************************************************************************)
\* append(&mut self, other)
AppendOp(l, o, ns) ==
    LET ns1 == IF l.tail = Null THEN ns
               ELSE [ns EXCEPT ![l.tail].next = o.head]
        ns2 == IF l.tail = Null \/ o.head = Null THEN ns1
               ELSE [ns1 EXCEPT ![o.head].prev = l.tail]
    IN [list  |-> [head |-> IF l.tail = Null THEN o.head ELSE l.head,
                   tail |-> IF l.tail = Null THEN o.head ELSE l.tail,
                   len  |-> l.len + o.len],
        other |-> [head |-> Null, tail |-> Null, len |-> 0],
        nodes |-> ns2,
        ub    |-> Dangling(ns, l.tail) \/ (l.tail # Null /\ Dangling(ns, o.head))]

\* the addresses the loop of split_off visits: it_node for it_idx = 0..i
RECURSIVE Path(_, _, _)
Path(ns, p, i) ==
    IF p = Null THEN <<>>
    ELSE IF i = 0 THEN <<p>>
    ELSE <<p>> \o Path(ns, ns[p].next, i - 1)

\* assert!(at <= len, ..)
SplitOffAssert(at, len) == at <= len

\* a panic of split_off: the unwinding leaves self as it is
SplitOffPanicAfterTake(l, ns) ==
    [list |-> ListNew, ret |-> l, nodes |-> ns, panic |-> TRUE, ub |-> FALSE]
SplitOffPanic(l, ns) ==
    [list |-> l, ret |-> ListNew, nodes |-> ns, panic |-> TRUE, ub |-> FALSE]

\* split_off(&mut self, at)
SplitOffKeepsTail(l, ns, at) ==
    LET len == ListLen(l) IN
    IF ~SplitOffAssert(at, len) THEN SplitOffPanic(l, ns)
    ELSE IF at = 0
    THEN [list |-> ListNew, ret |-> l, nodes |-> ns, panic |-> FALSE, ub |-> FALSE]
    ELSE IF at = len
    THEN [list |-> l, ret |-> ListNew, nodes |-> ns, panic |-> FALSE, ub |-> FALSE]
    ELSE LET path == Path(ns, l.head, at) IN
         IF Len(path) < at + 1
         THEN [SplitOffPanic(l, ns) EXCEPT
                   !.ub = \E k \in 1..Len(path) : Dangling(ns, path[k])]
         ELSE LET n == path[at + 1]
                  prev == ns[n].prev
                  ns1 == IF prev = Null THEN ns
                         ELSE [ns EXCEPT ![prev].next = Null]
              IN [list  |-> [head |-> l.head, tail |-> l.tail, len |-> l.len],
                  ret   |-> [head |-> n, tail |-> l.tail, len |-> len - at],
                  nodes |-> [ns1 EXCEPT ![n].prev = Null],
                  panic |-> FALSE,
                  ub    |-> \/ \E k \in 1..Len(path) : Dangling(ns, path[k])
                            \/ Dangling(ns, prev)]
SplitOffOp(l, ns, at) ==
    LET len == ListLen(l) IN
    IF ~SplitOffAssert(at, len) THEN SplitOffPanic(l, ns)
    ELSE IF at = 0
    THEN [list |-> ListNew, ret |-> l, nodes |-> ns, panic |-> FALSE, ub |-> FALSE]
    ELSE IF at = len
    THEN [list |-> l, ret |-> ListNew, nodes |-> ns, panic |-> FALSE, ub |-> FALSE]
    ELSE LET path == Path(ns, l.head, at) IN
         IF Len(path) < at + 1
         THEN [SplitOffPanic(l, ns) EXCEPT
                   !.ub = \E k \in 1..Len(path) : Dangling(ns, path[k])]
         ELSE LET n == path[at + 1]
                  prev == ns[n].prev
                  ns1 == IF prev = Null THEN ns
                         ELSE [ns EXCEPT ![prev].next = Null]
              IN [list  |-> [head |-> l.head, tail |-> prev, len |-> l.len],
                  ret   |-> [head |-> n, tail |-> l.tail, len |-> len - at],
                  nodes |-> [ns1 EXCEPT ![n].prev = Null],
                  panic |-> FALSE,
                  ub    |-> \/ \E k \in 1..Len(path) : Dangling(ns, path[k])
                            \/ Dangling(ns, prev)]

\* back()
BackOp(l, ns) == IF l.tail = Null THEN None ELSE Some(ns[l.tail].data)

\* iter() and Iter::next until it returns None; fuel stops a walk in a cycle
RECURSIVE IterFrom(_, _, _)
IterFrom(ns, p, fuel) ==
    IF p = Null \/ fuel = 0 THEN <<>>
    ELSE <<ns[p].data>> \o IterFrom(ns, ns[p].next, fuel - 1)
Forward(l, ns) == IterFrom(ns, l.head, MaxNodes + 1)

\* what repeated pop_front returns until it returns None
RECURSIVE DrainFrontFrom(_, _, _)
DrainFrontFrom(l, ns, fuel) ==
    LET r == PopFrontOp(l, ns) IN
       IF r.ret = None \/ fuel = 0 THEN <<>>
       ELSE <<r.ret.v>> \o DrainFrontFrom(r.list, r.nodes, fuel - 1)
DrainFront(l, ns) == DrainFrontFrom(l, ns, MaxNodes + 1)

\* what repeated pop_back returns until it returns None
RECURSIVE DrainBackFrom(_, _, _)
DrainBackFrom(l, ns, fuel) ==
    LET r == PopBackOp(l, ns) IN
       IF r.ret = None \/ fuel = 0 THEN <<>>
       ELSE <<r.ret.v>> \o DrainBackFrom(r.list, r.nodes, fuel - 1)
DrainBack(l, ns) == DrainBackFrom(l, ns, MaxNodes + 1)

Reverse(s) == [i \in 1..Len(s) |-> s[Len(s) + 1 - i]]

InitOther ==
    /\ other = ListNew
    /\ otherModel = <<>>
    /\ listAt = 0
    /\ listPanicked = FALSE
    /\ otherOps = 0

\* a thread that has panicked or has run into undefined behaviour is not
\* followed further; the len fields are kept within the model's range
ListsRunning == ~listUb /\ ~listPanicked
LenInRange == ListLen(list) + ListLen(other) <= MaxNodes
\* the client fills list first and then performs a bounded number of
\* operations that involve other
Filling == otherOps = 0
OtherOpsLeft == otherOps < MaxOtherOps

\* other.push_back(d)
OtherPushBack(d) ==
    \E n \in FreeNodes(nodes) :
        LET r == PushBackOp(other, nodes, n, d) IN
           /\ other' = r.list
           /\ nodes' = r.nodes
           /\ listUb' = (listUb \/ r.ub)
           /\ listOp' = "other_push_back"
           /\ otherModel' = RefPushBack(otherModel, d)
           /\ listRet' = None
           /\ listAt' = 0
           /\ preList' = list
           /\ preModel' = model
           /\ UNCHANGED <<list, model, listPanicked>>
           /\ otherOps' = otherOps + 1

\* other.pop_front()
OtherPopFront ==
    LET r == PopFrontOp(other, nodes) IN
       /\ other' = r.list
       /\ nodes' = r.nodes
       /\ listUb' = (listUb \/ r.ub)
       /\ listRet' \in IF r.ub THEN Options ELSE {r.ret}
       /\ listOp' = "other_pop_front"
       /\ otherModel' = RefPopFront(otherModel).seq
       /\ listAt' = 0
       /\ preList' = list
       /\ preModel' = model
       /\ UNCHANGED <<list, model, listPanicked>>
       /\ otherOps' = otherOps + 1

\* other.pop_back()
OtherPopBack ==
    LET r == PopBackOp(other, nodes) IN
       /\ other' = r.list
       /\ nodes' = r.nodes
       /\ listUb' = (listUb \/ r.ub)
       /\ listRet' \in IF r.ub THEN Options ELSE {r.ret}
       /\ listOp' = "other_pop_back"
       /\ otherModel' = RefPopBack(otherModel).seq
       /\ listAt' = 0
       /\ preList' = list
       /\ preModel' = model
       /\ UNCHANGED <<list, model, listPanicked>>
       /\ otherOps' = otherOps + 1

\* list.append(&mut other)
ListAppend ==
    LET r == AppendOp(list, other, nodes) IN
       /\ list' = r.list
       /\ other' = r.other
       /\ nodes' = r.nodes
       /\ listUb' = (listUb \/ r.ub)
       /\ listOp' = "append"
       /\ preList' = list
       /\ model' = model \o otherModel
       /\ preModel' = model
       /\ otherModel' = <<>>
       /\ listRet' = None
       /\ listAt' = 0
       /\ UNCHANGED listPanicked
       /\ otherOps' = otherOps + 1

\* other = list.split_off(at), where dropping the old other frees nothing
SplitOff(at) ==
    /\ other.head = Null
    /\ LET r == SplitOffOp(list, nodes, at) IN
          /\ list' = r.list
          /\ other' = IF r.panic THEN other ELSE r.ret
          /\ nodes' = r.nodes
          /\ listUb' = (listUb \/ r.ub)
          /\ listPanicked' = r.panic
          /\ model' = IF r.panic THEN model
                      ELSE SubSeq(model, 1, IF at <= Len(model) THEN at ELSE Len(model))
          /\ otherModel' = IF r.panic THEN otherModel
                           ELSE SubSeq(model, at + 1, Len(model))
    /\ listOp' = "split_off"
    /\ listAt' = at
    /\ preList' = list
    /\ preModel' = model
    /\ otherOps' = otherOps + 1
    /\ listRet' = None

NextLists ==
    \/ \E d \in ListData :
          ListsRunning /\ Filling /\ LenInRange /\ PushFront(d) /\ UNCHANGED nonListVars
    \/ \E d \in ListData :
          ListsRunning /\ Filling /\ LenInRange /\ PushBack(d) /\ UNCHANGED nonListVars
    \/ ListsRunning /\ PopFront /\ UNCHANGED nonListVars
    \/ ListsRunning /\ PopBack /\ UNCHANGED nonListVars
    \/ \E d \in ListData :
          ListsRunning /\ LenInRange /\ OtherOpsLeft /\ OtherPushBack(d) /\ UNCHANGED nonListsVars
    \/ ListsRunning /\ OtherOpsLeft /\ OtherPopFront /\ UNCHANGED nonListsVars
    \/ ListsRunning /\ OtherOpsLeft /\ OtherPopBack /\ UNCHANGED nonListsVars
    \/ ListsRunning /\ OtherOpsLeft /\ ListAppend /\ UNCHANGED nonListsVars
    \/ \E at \in 0..(MaxNodes + 1) :
          ListsRunning /\ LenInRange /\ OtherOpsLeft /\ SplitOff(at) /\ UNCHANGED nonListsVars

\* a client without append that goes on pushing onto list after split_off
NextSplit ==
    \/ \E d \in ListData :
          ListsRunning /\ LenInRange /\ PushFront(d) /\ UNCHANGED nonListVars
    \/ \E d \in ListData :
          ListsRunning /\ LenInRange /\ PushBack(d) /\ UNCHANGED nonListVars
    \/ ListsRunning /\ PopFront /\ UNCHANGED nonListVars
    \/ ListsRunning /\ PopBack /\ UNCHANGED nonListVars
    \/ \E d \in ListData :
          ListsRunning /\ LenInRange /\ OtherOpsLeft /\ OtherPushBack(d) /\ UNCHANGED nonListsVars
    \/ ListsRunning /\ OtherOpsLeft /\ OtherPopFront /\ UNCHANGED nonListsVars
    \/ ListsRunning /\ OtherOpsLeft /\ OtherPopBack /\ UNCHANGED nonListsVars
    \/ \E at \in 0..(MaxNodes + 1) :
          ListsRunning /\ LenInRange /\ OtherOpsLeft /\ SplitOff(at) /\ UNCHANGED nonListsVars

(***************************************************************************)
(* LinkedHashMap                                                           *)
(***************************************************************************)
Keys == 1..MaxKeys
MapValues == 1..MaxMapValue
\* the values Hasher::finish can give, enough to tell apart the buckets of
\* every table the keys can grow
HashValues == 0..3
\* a bool result, held in the same shape as an Option
BoolRet(b) == [some |-> b, v |-> 0]

\* LinkedHashMap::default: no buckets, no entries
MapNewOp == [buckets |-> <<>>, count |-> 0]

MapLen(m) == m.count
MapIsEmpty(m) == m.count = 0

\* derive_bucket_index: hasher.finish() % n_buckets, as a 1-based index;
\* called with n_buckets > 0
DeriveBucketIndex(hash, nBuckets) == (hash % nBuckets) + 1

\* index(&key) divides by buckets.len()
IndexPanics(m) == Len(m.buckets) = 0

\* the items of all buckets in bucket order: flat_map(|b| b.items.drain(..))
RECURSIVE DrainFrom(_, _)
DrainFrom(bs, i) == IF i > Len(bs) THEN <<>> ELSE bs[i] \o DrainFrom(bs, i + 1)
Drain(bs) == DrainFrom(bs, 1)

\* buckets[idx].items.push((key, value)) for every drained item
RECURSIVE PushFrom(_, _, _, _)
PushFrom(bs, items, i, h) ==
    IF i > Len(items) THEN bs
    ELSE LET idx == DeriveBucketIndex(h[items[i][1]], Len(bs)) IN
            PushFrom([bs EXCEPT ![idx] = Append(@, items[i])], items, i + 1, h)
PushAll(bs, items, h) == PushFrom(bs, items, 1, h)

\* grow
GrowDropsItems(bs, h) ==
    LET target == IF Len(bs) = 0 THEN 1 ELSE 2 * Len(bs) IN
       [i \in 1..target |-> <<>>]
GrowOp(bs, h) ==
    LET target == IF Len(bs) = 0 THEN 1 ELSE 2 * Len(bs) IN
       PushAll([i \in 1..target |-> <<>>], Drain(bs), h)

\* the positions of key k in a bucket
Positions(items, k) == {i \in 1..Len(items) : items[i][1] = k}
First(S) == CHOOSE i \in S : \A j \in S : i <= j

\* insert(key, value)
InsertOp(m, h, k, v) ==
    LET bs == IF Len(m.buckets) = 0 \/ m.count > (3 * Len(m.buckets)) \div 4
              THEN GrowOp(m.buckets, h) ELSE m.buckets
        idx == DeriveBucketIndex(h[k], Len(bs))
        at == Positions(bs[idx], k)
    IN IF at # {}
       THEN [map |-> [buckets |-> [bs EXCEPT ![idx][First(at)] = <<k, v>>],
                      count   |-> m.count],
             ret |-> Some(bs[idx][First(at)][2])]
       ELSE [map |-> [buckets |-> [bs EXCEPT ![idx] = Append(@, <<k, v>>)],
                      count   |-> m.count + 1],
             ret |-> None]

\* get(key), on a map with buckets
GetIgnoresKey(m, h, k) ==
    LET items == m.buckets[DeriveBucketIndex(h[k], Len(m.buckets))] IN
       IF Len(items) = 0 THEN None ELSE Some(items[1][2])
GetOp(m, h, k) ==
    LET items == m.buckets[DeriveBucketIndex(h[k], Len(m.buckets))]
        at == Positions(items, k)
    IN IF at = {} THEN None ELSE Some(items[First(at)][2])

\* Vec::swap_remove(i): the last item takes the place of item i
SwapRemove(items, i) ==
    [j \in 1..(Len(items) - 1) |-> IF j = i THEN items[Len(items)] ELSE items[j]]

\* remove(key), on a map with buckets
RemoveKeepsCount(m, h, k) ==
    LET idx == DeriveBucketIndex(h[k], Len(m.buckets))
        at == Positions(m.buckets[idx], k)
    IN IF at = {} THEN [map |-> m, ret |-> None]
       ELSE [map |-> [buckets |-> [m.buckets EXCEPT
                                      ![idx] = SwapRemove(@, First(at))],
                      count   |-> m.count],
             ret |-> Some(m.buckets[idx][First(at)][2])]
RemoveOp(m, h, k) ==
    LET idx == DeriveBucketIndex(h[k], Len(m.buckets))
        at == Positions(m.buckets[idx], k)
    IN IF at = {} THEN [map |-> m, ret |-> None]
       ELSE [map |-> [buckets |-> [m.buckets EXCEPT
                                      ![idx] = SwapRemove(@, First(at))],
                      count   |-> m.count - 1],
             ret |-> Some(m.buckets[idx][First(at)][2])]

\* contains_key(key), on a map with buckets
ContainsKeyOp(m, h, k) ==
    Positions(m.buckets[DeriveBucketIndex(h[k], Len(m.buckets))], k) # {}

\* (&map).into_iter() and Iter::next until it returns None
RECURSIVE IterCollect(_, _, _)
IterCollect(bs, bucketIdx, entryIdx) ==
    IF bucketIdx > Len(bs) THEN <<>>
    ELSE IF entryIdx <= Len(bs[bucketIdx])
    THEN <<bs[bucketIdx][entryIdx]>> \o IterCollect(bs, bucketIdx, entryIdx + 1)
    ELSE IterCollect(bs, bucketIdx + 1, 1)
IterOp(m) == IterCollect(m.buckets, 1, 1)

\* map.into_iter() and IntoIter::next until it returns None
RECURSIVE IntoIterCollect(_, _)
IntoIterCollect(bs, bucketIdx) ==
    IF bucketIdx > Len(bs) THEN <<>>
    ELSE LET items == bs[bucketIdx] IN
       IF Len(items) > 0
       THEN <<items[Len(items)]>> \o
            IntoIterCollect([bs EXCEPT ![bucketIdx] =
                                 SubSeq(items, 1, Len(items) - 1)], bucketIdx)
       ELSE IntoIterCollect(bs, bucketIdx + 1)
IntoIterOp(m) == IntoIterCollect(m.buckets, 1)

InitMap ==
    /\ map = MapNewOp
    /\ hasher = [k \in Keys |-> 0]
    /\ mapOp = [op |-> "new", key |-> 0]
    /\ mapRet = None
    /\ mapPanicked = FALSE
    /\ mapFirst = "none"
    /\ ref = [k \in Keys |-> None]

\* let mut map = LinkedHashMap::new(), with the keys of a fresh RandomState
MapNew(h) ==
    /\ ~mapPanicked
    /\ map' = MapNewOp
    /\ hasher' = h
    /\ mapOp' = [op |-> "new", key |-> 0]
    /\ mapRet' = None
    /\ mapFirst' = "none"
    /\ ref' = [k \in Keys |-> None]
    /\ UNCHANGED mapPanicked

\* map.insert(k, v)
MapInsert(k, v) ==
    /\ ~mapPanicked
    /\ LET r == InsertOp(map, hasher, k, v) IN
          /\ map' = r.map
          /\ mapRet' = r.ret
    /\ mapOp' = [op |-> "insert", key |-> k]
    /\ mapFirst' = IF mapFirst = "none" THEN "insert" ELSE mapFirst
    /\ ref' = [ref EXCEPT ![k] = Some(v)]
    /\ UNCHANGED <<hasher, mapPanicked>>

\* map.get(&k)
MapGet(k) ==
    /\ ~mapPanicked
    /\ IF IndexPanics(map)
       THEN mapPanicked' = TRUE /\ mapRet' = None
       ELSE mapPanicked' = FALSE /\ mapRet' = GetOp(map, hasher, k)
    /\ mapOp' = [op |-> "get", key |-> k]
    /\ mapFirst' = IF mapFirst = "none" THEN "get" ELSE mapFirst
    /\ UNCHANGED <<map, hasher, ref>>

\* map.remove(&k)
MapRemove(k) ==
    /\ ~mapPanicked
    /\ IF IndexPanics(map)
       THEN mapPanicked' = TRUE /\ mapRet' = None /\ map' = map
       ELSE LET r == RemoveOp(map, hasher, k) IN
               /\ mapPanicked' = FALSE
               /\ mapRet' = r.ret
               /\ map' = r.map
    /\ mapOp' = [op |-> "remove", key |-> k]
    /\ mapFirst' = IF mapFirst = "none" THEN "remove" ELSE mapFirst
    /\ ref' = IF IndexPanics(map) THEN ref ELSE [ref EXCEPT ![k] = None]
    /\ UNCHANGED hasher

\* map.contains_key(&k)
MapContainsKey(k) ==
    /\ ~mapPanicked
    /\ IF IndexPanics(map)
       THEN mapPanicked' = TRUE /\ mapRet' = None
       ELSE mapPanicked' = FALSE /\ mapRet' = BoolRet(ContainsKeyOp(map, hasher, k))
    /\ mapOp' = [op |-> "contains_key", key |-> k]
    /\ mapFirst' = IF mapFirst = "none" THEN "contains_key" ELSE mapFirst
    /\ UNCHANGED <<map, hasher, ref>>

NextMap ==
    \/ \E h \in [Keys -> HashValues] : MapNew(h) /\ UNCHANGED nonMapVars
    \/ \E k \in Keys, v \in MapValues : MapInsert(k, v) /\ UNCHANGED nonMapVars
    \/ \E k \in Keys : MapGet(k) /\ UNCHANGED nonMapVars
    \/ \E k \in Keys : MapRemove(k) /\ UNCHANGED nonMapVars
    \/ \E k \in Keys : MapContainsKey(k) /\ UNCHANGED nonMapVars

(***************************************************************************)
(* Specifications                                                          *)
(***************************************************************************)
Init == InitMutex /\ InitRefCell /\ InitRc /\ InitCell /\ InitList /\ InitOther
        /\ InitMap

\* The current revision of Mutex, src/atomics/mutex.rs.
InitCurrent == Init /\ rev = "src/atomics/mutex.rs"
SpecMutex == InitCurrent /\ [][NextMutex]_vars

\* All revisions of Mutex in the tree.
SpecMutexAll == Init /\ [][NextMutex]_vars

\* Every thread is a native thread that keeps running, and a
\* compare_exchange_weak that is attempted again and again on an UNLOCKED
\* flag does not fail forever.
FairMutex ==
    /\ \A t \in Threads : WF_vars(ThreadStep(t) /\ UNCHANGED nonMutexVars)
    /\ \A t \in Threads : SF_vars(CasSuccess(t) /\ UNCHANGED nonMutexVars)
FairSpecMutex == SpecMutex /\ FairMutex

\* The current revision with closures that may panic.
SpecMutexPanic == InitCurrent /\ [][NextMutexPanic]_vars

\* The current revision with closures that may call with_lock again.
SpecMutexNested == InitCurrent /\ [][NextMutexNested]_vars

\* One RefCell and its single-threaded client.
InitSingle == InitCurrent /\ client = "test"
SpecRefCell == InitSingle /\ [][NextRefCell]_vars

\* The Rc handles of one thread and the blocks they share.
SpecRc == InitSingle /\ [][NextRc]_vars

\* The same with a client that may leak handles instead of dropping them.
SpecRcLeak == InitSingle /\ [][NextRcLeak]_vars

\* One Cell and the calls a single thread makes on it.
SpecCell == InitSingle /\ [][NextCell]_vars

\* One DoublyLinkedList, pushed to and popped from at both ends.
SpecList == InitSingle /\ [][NextList]_vars

\* Two DoublyLinkedLists on one heap, with append and split_off between them.
SpecLists == InitSingle /\ [][NextLists]_vars

\* Two lists on one heap, the second one made by split_off; no append.
SpecSplit == InitSingle /\ [][NextSplit]_vars

\* One LinkedHashMap at a time, each with the hashes of its own RandomState.
SpecMap == InitSingle /\ [][NextMap]_vars

(***************************************************************************)
(* Properties of Mutex                                                     *)
(***************************************************************************)
\* A thread is between its successful compare-exchange and its unlock store.
InCritical(t) == pc[t] \in {"f", "f_store", "store"}
Waiting(t) == pc[t] \in {"cas", "spin"}
Returned(t) == pc[t] \in {"idle", "done"}

RECURSIVE SumOver(_, _)
SumOver(f, S) ==
    IF S = {} THEN 0
    ELSE LET x == CHOOSE y \in S : TRUE IN f[x] + SumOver(f, S \ {x})

\* C1: mutual exclusion.  In every reachable state at most one thread is
\* between its successful compare-exchange and its unlock store, also after
\* spurious failures of the weak compare-exchange.
C1_MutualExclusion ==
    /\ Cardinality({t \in Threads : InCritical(t)}) <= 1
    /\ \A t \in Threads : InCritical(t) => locked = LOCKED

\* a thread holds the lock while another one waits, after a spurious failure
C1_Witness ==
    /\ spurious
    /\ \E t, u \in Threads : t # u /\ pc[t] = "f_store" /\ pc[u] = "spin"

\* C2: no lost updates.  Once the NThreads workers have made NIter increment
\* calls each and have been joined, the payload read by the main thread is
\* NThreads * NIter.
C2_NoLostUpdates ==
    (client = "test" /\ pc[Main] = "done") => ret[Main] = Val(NThreads * NIter)

\* C3: the acquiring compare-exchange is at least Acquire and the unlock
\* store at least Release, so a thread that has acquired the lock sees every
\* write made to the payload under the lock before it.
C3_AcquireReleaseVisibility ==
    \A t \in Threads :
        (pc[t] = "f" /\ Len(hist) > 1) =>
            /\ IsAcquire(SuccessOrdering(rev))
            /\ IsRelease(StoreOrdering(rev))
            /\ seen[t] = Len(hist)

\* C4 as stated: every call to with_lock eventually returns.
C4_EveryCallReturns ==
    \A t \in Threads : Waiting(t) ~> Returned(t)

\* C4 amended: every call to with_lock eventually returns when the other
\* threads make finitely many calls (the test harness).
C4_EveryCallReturnsFiniteCallers ==
    \A t \in Threads : (client = "test" /\ Waiting(t)) ~> Returned(t)

\* every call of the harness has returned, after some compare-exchange failed
C4_Witness ==
    /\ client = "test"
    /\ spurious
    /\ \A t \in Threads : pc[t] = "done"

\* C5: a call applies f exactly once, after the caller's own acquisition and
\* before its unlock store, stores UNLOCKED exactly once after f has returned,
\* and returns what f returned; every application of |v| *v += 1 adds one
\* write to the payload.
C5_ApplyOnceUnlockOnceReturn ==
    /\ \A t \in Threads :
          /\ acq[t] <= 1 /\ applied[t] <= acq[t] /\ stores[t] <= applied[t]
          /\ pc[t] \in {"f_store", "store"} => applied[t] = 1 /\ stores[t] = 0
          /\ pc[t] = "store" => rtr[t] # NoValue
          /\ (Returned(t) /\ fn[t] # "none") =>
                /\ acq[t] = 1 /\ applied[t] = 1 /\ stores[t] = 1
                /\ ret[t] = rtr[t]
                /\ fn[t] = "inc" => ret[t] = Unit
                /\ fn[t] = "get" => ret[t] = Val(hist[seen[t]])
    /\ Len(hist) = 1 + SumOver(iter, Threads)
                     + Cardinality({t \in Threads : pc[t] = "store" /\ fn[t] = "inc"})

\* the main thread's call |v| *v has returned the payload
C5_Witness ==
    /\ pc[Main] = "done"
    /\ fn[Main] = "get"
    /\ ret[Main] = Val(NThreads * NIter)
    /\ stores[Main] = 1

(***************************************************************************)
(* Properties of RefCell                                                   *)
(***************************************************************************)
NumLive(gs, kind) == Cardinality(Live(gs, kind))

\* C6: aliasing exclusion.  A live RefMut guard never coexists with another
\* live guard, Ref or RefMut.
C6_AliasingExclusion ==
    /\ NumLive(guards, "RefMut") <= 1
    /\ NumLive(guards, "RefMut") = 1 => NumLive(guards, "Ref") = 0

\* every slot holds a live Ref: shared guards coexist
C6_Witness ==
    /\ NumLive(guards, "Ref") = MaxGuards
    /\ lastOp = "borrow_mut"
    /\ lastRes = "None"

\* C7: borrow succeeds exactly when the state is not Exclusive, moving
\* Unshared to Shared(1) and Shared(n) to Shared(n+1) and yielding one more
\* Ref; k consecutive borrows without a drop leave the state Shared(k).
C7_Borrow ==
    /\ lastOp = "borrow" =>
          /\ lastRes = "Some" <=> preState # Exclusive
          /\ preState = Unshared => state = Shared(1)
          /\ preState.tag = "Shared" => state = Shared(preState.n + 1)
          /\ preState = Exclusive => state = Exclusive
          /\ lastRes = "Some" =>
                NumLive(guards, "Ref") = NumLive(preGuards, "Ref") + 1
    /\ streak > 0 => state = Shared(streak) /\ NumLive(guards, "Ref") = streak

\* MaxGuards consecutive borrows have all succeeded
C7_Witness ==
    /\ streak = MaxGuards
    /\ lastOp = "borrow"
    /\ lastRes = "Some"
    /\ state = Shared(MaxGuards)

\* C8: borrow_mut succeeds exactly when the state is Unshared, moving it to
\* Exclusive and yielding a RefMut; while any guard is live it returns None.
C8_BorrowMut ==
    lastOp = "borrow_mut" =>
        /\ lastRes = "Some" <=> preState = Unshared
        /\ lastRes = "Some" <=> preGuards = NoGuards
        /\ lastRes = "Some" =>
              /\ state = Exclusive
              /\ NumLive(guards, "RefMut") = 1
              /\ NumLive(guards, "Ref") = 0
        /\ lastRes = "None" => state = preState /\ guards = preGuards

\* borrow_mut has returned None because a Ref is live
C8_Witness ==
    /\ lastOp = "borrow_mut"
    /\ lastRes = "None"
    /\ NumLive(guards, "Ref") = 1
    /\ NumLive(guards, "RefMut") = 0

\* C9: dropping a RefMut moves the state from Exclusive to Unshared; while
\* the RefMut is live every borrow and borrow_mut returns None, and the call
\* that follows the drop, borrow or borrow_mut, succeeds.
C9_DropRefMut ==
    /\ lastOp = "drop_mut" =>
          preState = Exclusive /\ state = Unshared /\ ~panicked
    /\ (lastOp \in {"borrow", "borrow_mut"} /\ NumLive(preGuards, "RefMut") > 0) =>
          lastRes = "None" /\ guards = preGuards
    /\ (prevOp = "drop_mut" /\ lastOp \in {"borrow", "borrow_mut"}) =>
          lastRes = "Some"

\* a borrow was refused while the RefMut was live, then the RefMut was dropped
\* and the next borrow_mut succeeded
C9_Witness ==
    /\ prevOp = "drop_mut"
    /\ lastOp = "borrow_mut"
    /\ lastRes = "Some"
    /\ value = MaxValue

\* C10: dropping a Ref moves Shared(1) to Unshared and Shared(n), n > 1, to
\* Shared(n-1); when the last Ref has been dropped the state is Unshared and
\* a borrow_mut that follows succeeds.
C10_DropRef ==
    /\ lastOp = "drop_ref" =>
          /\ ~panicked
          /\ preState.tag = "Shared"
          /\ preState.n = NumLive(preGuards, "Ref")
          /\ preState.n = 1 => state = Unshared
          /\ preState.n > 1 => state = Shared(preState.n - 1)
          /\ guards = NoGuards => state = Unshared
    /\ (prevOp = "drop_ref" /\ lastOp = "borrow_mut" /\ preGuards = NoGuards) =>
          lastRes = "Some"

\* the last live Ref was dropped and the borrow_mut that followed succeeded
C10_Witness ==
    /\ prevOp = "drop_ref"
    /\ lastOp = "borrow_mut"
    /\ lastRes = "Some"
    /\ state = Exclusive

\* C11: a borrow or borrow_mut that conflicts with a live guard returns None
\* without panicking and leaves the borrow state, the payload and the live
\* guards as they were; dropping those guards afterwards restores Unshared.
C11_ConflictLeavesStateAlone ==
    /\ (lastOp \in {"borrow", "borrow_mut"} /\ lastRes = "None") =>
          /\ preGuards # NoGuards
          /\ state = preState
          /\ value = preValue
          /\ guards = preGuards
          /\ ~panicked
    /\ conflicts => ~panicked
    /\ (conflicts /\ guards = NoGuards) => state = Unshared

\* a borrow_mut was refused while Refs were live; they have all been dropped
C11_Witness ==
    /\ conflicts
    /\ lastOp = "drop_ref"
    /\ preState = Shared(1)
    /\ guards = NoGuards
    /\ state = Unshared

\* C12: a guard dereferences to the value last written through a RefMut of
\* the RefCell, or to the value given to RefCell::new if nothing was written.
C12_DerefSeesLastWrite ==
    /\ lastOp = "read" => lastRead = written
    /\ lastOp = "write" => value = written

\* a value was written through a RefMut, the RefMut was dropped, and a read
\* through a fresh Ref yields the value
C12_Witness ==
    /\ lastOp = "read"
    /\ prevOp = "borrow"
    /\ NumLive(guards, "Ref") = 1
    /\ lastRead = MaxValue

\* C13: the refcount stored in an inner block that is still allocated equals
\* the number of live handles that point at the block.
C13_RefcountIsLiveHandles ==
    \A b \in BlockIds :
        blocks[b].st = "live" =>
            blocks[b].refcount = Cardinality(HandlesOf(handles, b))

\* a drop has left two of three handles on one block while the other block
\* is shared as well
C13_Witness ==
    /\ rcOp.op = "drop"
    /\ \E b \in BlockIds :
          /\ preBlocks[b].refcount = 3
          /\ blocks[b].st = "live"
          /\ blocks[b].refcount = 2
          /\ Cardinality(HandlesOf(handles, b)) = 2

\* C14: a block is deallocated exactly once, by the drop that reads a count
\* of 1; while a handle to it is live it has not been deallocated at all.
C14_DeallocatedExactlyOnce ==
    /\ \A b \in BlockIds :
          /\ frees[b] <= 1
          /\ HandlesOf(handles, b) # {} => frees[b] = 0
          /\ (blocks[b].st # "unalloc" /\ HandlesOf(handles, b) = {}) =>
                frees[b] = 1
    /\ rcOp.op = "drop" =>
          LET b == preHandles[rcOp.src] IN
             (frees[b] = 1) <=> (preBlocks[b].refcount = 1)

\* the last of several handles has just been dropped and freed its block
C14_Witness ==
    /\ rcOp.op = "drop"
    /\ origin[rcOp.src] = "none"
    /\ \E b \in BlockIds :
          /\ b = preHandles[rcOp.src]
          /\ preBlocks[b].refcount = 1
          /\ frees[b] = 1
          /\ \E c \in BlockIds : c # b /\ Cardinality(HandlesOf(handles, c)) = 2

\* C15: every live handle points at a block that has not been deallocated,
\* no freed block is ever touched, and a dereference yields the payload that
\* Rc::new was given -- also through a clone whose original is gone.
C15_NoUseAfterFree ==
    /\ ~uaf
    /\ \A h \in HandleSlots :
          handles[h] # NoHandle => blocks[handles[h]].st = "live"
    /\ rcOp.op = "deref" => lastDeref = given[handles[rcOp.src]]

\* b = a.clone(); drop(a); *b
C15_Witness ==
    /\ rcOp.op = "deref"
    /\ origin[rcOp.src] = "clone"
    /\ HandlesOf(handles, handles[rcOp.src]) = {rcOp.src}
    /\ lastDeref = MaxValue

\* C16: Rc::new makes exactly one new block, with count 1; clone raises the
\* count of the source's block by exactly 1, allocates nothing, and the
\* handle it returns aliases that block.
C16_NewAndClone ==
    /\ rcOp.op = "new" =>
          LET b == handles[rcOp.dst] IN
             /\ preBlocks[b].st = "unalloc"
             /\ blocks[b] = [st |-> "live", value |-> rcOp.v, refcount |-> 1]
             /\ HandlesOf(handles, b) = {rcOp.dst}
             /\ \A c \in BlockIds \ {b} : blocks[c] = preBlocks[c]
    /\ rcOp.op = "clone" =>
          LET b == preHandles[rcOp.src] IN
             /\ handles[rcOp.dst] = b
             /\ handles[rcOp.src] = b
             /\ blocks[b] = [preBlocks[b] EXCEPT !.refcount = @ + 1]
             /\ \A c \in BlockIds \ {b} : blocks[c] = preBlocks[c]

\* a clone of a clone: the third handle on the block
C16_Witness ==
    /\ rcOp.op = "clone"
    /\ origin[rcOp.src] = "clone"
    /\ blocks[handles[rcOp.dst]].refcount = 3
    /\ blocks[handles[rcOp.dst]].value = MaxValue

\* C17: a drop that reads a count above 1 only lowers the count by 1: the
\* payload, the allocation and the other handles are as they were.
C17_DropOfSharedOnlyDecrements ==
    (rcOp.op = "drop" /\ preBlocks[preHandles[rcOp.src]].refcount > 1) =>
        LET b == preHandles[rcOp.src] IN
           /\ blocks[b] = [preBlocks[b] EXCEPT !.refcount = @ - 1]
           /\ blocks[b].st = "live"
           /\ frees[b] = 0
           /\ \A c \in BlockIds \ {b} : blocks[c] = preBlocks[c]
           /\ \A h \in HandleSlots \ {rcOp.src} :
                 /\ handles[h] = preHandles[h]
                 /\ handles[h] # NoHandle => blocks[handles[h]].st = "live"

\* the original handle of a twice-cloned block has been dropped
C17_Witness ==
    /\ rcOp.op = "drop"
    /\ preBlocks[preHandles[rcOp.src]].refcount = 3
    /\ blocks[preHandles[rcOp.src]].refcount = 2
    /\ \A h \in HandlesOf(handles, preHandles[rcOp.src]) : origin[h] = "clone"

\* C18: a Cell is a single register: get returns the value of the most recent
\* set, or the value given to Cell::new if there was none, and get leaves the
\* stored value as it was.
C18_CellIsRegister ==
    /\ cellOp = "get" => (cellGot = cellPut /\ cellContent = cellPre)
    /\ cellContent = cellPut

\* cell.set(v); cell.get() on a cell that held another value
C18_Witness ==
    /\ cellOp = "get"
    /\ cellPrevOp = "set"
    /\ cellGot = MaxCellValue
    /\ cellPre = MaxCellValue

\* C19: every pop returns what the same pop returns on the reference
\* sequence, in particular None on an empty list, and no operation ever
\* dereferences a node that is not allocated.
C19_DequeRefinement ==
    /\ listOp = "pop_front" => listRet = RefPopFront(preModel).ret
    /\ listOp = "pop_back" => listRet = RefPopBack(preModel).ret
    /\ (listOp \in {"pop_front", "pop_back"} /\ preModel = <<>>) => listRet = None
    /\ ~listUb

\* pop_back on a full list whose two ends hold different elements
C19_Witness ==
    /\ listOp = "pop_back"
    /\ Len(preModel) = MaxNodes
    /\ preModel[1] # preModel[MaxNodes]
    /\ listRet = Some(preModel[MaxNodes])

\* C20: len() is the number of elements in the list, is_empty() holds exactly
\* when that number is 0, and a pop on an empty list leaves len at 0.
C20_LenCountsElements ==
    /\ ListLen(list) = Len(model)
    /\ IsEmpty(list) <=> (Len(model) = 0)
    /\ (listOp \in {"pop_front", "pop_back"} /\ preModel = <<>>) =>
          (ListLen(list) = 0 /\ IsEmpty(list))

\* pop_front has taken one of two elements
C20_Witness ==
    /\ listOp = "pop_front"
    /\ Len(preModel) = 2
    /\ ListLen(list) = 1
    /\ ~IsEmpty(list)

\* C21: after list.append(&mut other), forward iteration over list yields the
\* former elements of list followed by the former elements of other, len is
\* the sum of the two former lengths, and other is empty.
C21_AppendConcatenates ==
    [][listOp' = "append" =>
          /\ Forward(list', nodes') = Forward(list, nodes) \o Forward(other, nodes)
          /\ ListLen(list') = ListLen(list) + ListLen(other)
          /\ other' = ListNew
          /\ IsEmpty(other')]_vars

\* C22: append moves the elements of other to the end of list: with other
\* non-empty, back() is then the former last element of other and repeated
\* pop_back returns the concatenation in reverse order.
C22_AppendMovesToEnd ==
    [][(listOp' = "append" /\ Forward(other, nodes) # <<>>) =>
          LET all == Forward(list, nodes) \o Forward(other, nodes) IN
             /\ BackOp(list', nodes') = Some(all[Len(all)])
             /\ DrainBack(list', nodes') = Reverse(all)]_vars

\* C23: split_off(at) with at within the list returns the elements from index
\* at on and leaves the elements before index at, as seen by forward iteration
\* and by repeated pop_front and pop_back on the two lists.
C23_SplitOffSplits ==
    [][(listOp' = "split_off" /\ listAt' <= Len(Forward(list, nodes))) =>
          LET all == Forward(list, nodes)
              kept == SubSeq(all, 1, listAt')
              moved == SubSeq(all, listAt' + 1, Len(all))
          IN /\ ~listPanicked'
             /\ Forward(list', nodes') = kept
             /\ Forward(other', nodes') = moved
             /\ DrainFront(list', nodes') = kept
             /\ DrainFront(other', nodes') = moved
             /\ DrainBack(list', nodes') = Reverse(kept)
             /\ DrainBack(other', nodes') = Reverse(moved)]_vars

\* C24: split_off(at) with at > len panics, and at the panic head, tail, len
\* and every link are as they were before the call.
C24_SplitOffPanicsUnmodified ==
    [][(listOp' = "split_off" /\ listAt' > ListLen(list)) =>
          /\ listPanicked'
          /\ list' = list
          /\ nodes' = nodes
          /\ other' = other]_vars

\* split_off past the end of a list of two elements has panicked
C24_Witness ==
    /\ listOp = "split_off"
    /\ listPanicked
    /\ listAt > ListLen(list)
    /\ ListLen(list) = 2
    /\ Len(Forward(list, nodes)) = 2
    /\ list = preList

\* the keys the reference map holds, and its (key, value) pairs
Present(r) == {k \in Keys : r[k] # None}
Pairs(r) == {<<k, r[k].v>> : k \in Present(r)}
Range(seq) == {seq[i] : i \in 1..Len(seq)}

\* C25: on a map whose first operation was an insert, no operation panics and
\* each agrees with the reference map: insert returns the previous value of
\* the key (None if absent) and stores the new one, get returns the stored
\* value, remove returns it and makes the key absent, contains_key tells
\* whether the key is present.
C25_AgreesWithReferenceMap ==
    [][mapFirst' = "insert" =>
          /\ ~mapPanicked'
          /\ mapOp'.op = "insert" =>
                /\ mapRet' = ref[mapOp'.key]
                /\ GetOp(map', hasher', mapOp'.key) = ref'[mapOp'.key]
          /\ mapOp'.op = "get" => mapRet' = ref[mapOp'.key]
          /\ mapOp'.op = "remove" =>
                /\ mapRet' = ref[mapOp'.key]
                /\ GetOp(map', hasher', mapOp'.key) = None
                /\ ~ContainsKeyOp(map', hasher', mapOp'.key)
          /\ mapOp'.op = "contains_key" =>
                mapRet' = BoolRet(ref[mapOp'.key] # None)]_vars

\* a key has been removed from a bucket that another key shares
C25_Witness ==
    /\ mapFirst = "insert"
    /\ mapOp.op = "remove"
    /\ mapRet = Some(MaxMapValue)
    /\ ~mapPanicked
    /\ \E k \in Present(ref) :
          DeriveBucketIndex(hasher[k], Len(map.buckets)) =
             DeriveBucketIndex(hasher[mapOp.key], Len(map.buckets))

\* C26: for a key that is not present, in any state of the map, one returned
\* by new() included, get and remove return None, contains_key returns false,
\* none of them panics, and len is unchanged.
C26_AbsentKeyIsHarmless ==
    [][(mapOp'.op \in {"get", "remove", "contains_key"} /\ ref[mapOp'.key] = None) =>
          /\ ~mapPanicked'
          /\ mapRet' = None
          /\ MapLen(map') = MapLen(map)]_vars

\* C27: len() is the number of distinct keys present and is_empty() holds
\* exactly when len() is 0.
C27_MapLenCountsKeys ==
    /\ MapLen(map) = Cardinality(Present(ref))
    /\ MapLen(map) = Len(Drain(map.buckets))
    /\ MapIsEmpty(map) <=> (MapLen(map) = 0)
    /\ MapIsEmpty(map) <=> (Present(ref) = {})

\* one of two keys has been removed
C27_Witness ==
    /\ mapOp.op = "remove"
    /\ mapRet # None
    /\ MapLen(map) = 1
    /\ ~MapIsEmpty(map)

\* C28: iteration by reference and by value each yield every present
\* (key, value) pair exactly once, with the value currently stored, and
\* nothing else.
C28_IterationYieldsEachPairOnce ==
    /\ Range(IterOp(map)) = Pairs(ref)
    /\ Len(IterOp(map)) = Cardinality(Pairs(ref))
    /\ Range(IntoIterOp(map)) = Pairs(ref)
    /\ Len(IntoIterOp(map)) = Cardinality(Pairs(ref))

\* the table has grown to four buckets, a value has been replaced, and the
\* two iterations run in different orders
C28_Witness ==
    /\ Len(map.buckets) = 4
    /\ Present(ref) = Keys
    /\ mapOp.op = "insert"
    /\ mapRet # None
    /\ IterOp(map) # IntoIterOp(map)

\* C29: the spin lock is deadlock-free: whenever some thread waits in
\* with_lock while no thread holds the lock, some thread eventually enters the
\* critical section, and a thread that holds the lock eventually releases it;
\* which of the waiting threads enters is not determined.
C29_DeadlockFree ==
    /\ ((\E t \in Threads : Waiting(t)) /\ (\A u \in Threads : ~InCritical(u)))
          ~> (\E u \in Threads : pc[u] = "f")
    /\ \A u \in Threads : InCritical(u) ~> ~InCritical(u)

\* among callers that never stop calling, one has entered the critical
\* section while another one waits after a failed compare-exchange
C29_Witness ==
    /\ client = "loop"
    /\ spurious
    /\ \E t, u \in Threads : t # u /\ pc[t] = "f" /\ pc[u] = "spin"

\* C30: under any sequence of borrow, borrow_mut and guard drops the
\* unreachable!() branches of the guard destructors are never executed: no
\* destructor has panicked, a drop of a Ref started in a Shared state and a
\* drop of a RefMut in Exclusive, and while a Ref is live the state is
\* Shared(_) and while a RefMut is live it is Exclusive, so that the drop of
\* any live guard takes a reachable branch.
C30_UnreachableNeverExecuted ==
    /\ ~panicked
    /\ lastOp = "drop_ref" => preState.tag = "Shared"
    /\ lastOp = "drop_mut" => preState = Exclusive
    /\ \A g \in Slots :
          /\ guards[g] = "Ref" => ~DropRefOp(state).panic
          /\ guards[g] = "RefMut" => ~DropRefMutOp(state).panic

\* a RefMut was written through and dropped, two Refs were taken after it and
\* one of them has just been dropped
C30_Witness ==
    /\ lastOp = "drop_ref"
    /\ preState = Shared(2)
    /\ state = Shared(1)
    /\ written = MaxValue
    /\ value = MaxValue

\* C31: the RefCell state reflects the live guards: it is Shared(n) exactly
\* when n >= 1 Ref guards and no RefMut guard are live, Exclusive exactly when
\* one RefMut guard and no Ref guard is live, Unshared exactly when no guard
\* is live; Shared(0) is never reached.
C31_StateReflectsGuards ==
    /\ \A n \in 1..MaxGuards :
          state = Shared(n) <=>
             (NumLive(guards, "Ref") = n /\ NumLive(guards, "RefMut") = 0)
    /\ state = Exclusive <=>
          (NumLive(guards, "RefMut") = 1 /\ NumLive(guards, "Ref") = 0)
    /\ state = Unshared <=> guards = NoGuards
    /\ state # Shared(0)
    /\ state.tag = "Shared" => state.n \in 1..MaxGuards

\* a borrow_mut was refused, and after the drop of one Ref the remaining
\* MaxGuards - 1 Refs are counted by the state
C31_Witness ==
    /\ conflicts
    /\ lastOp = "drop_ref"
    /\ preState = Shared(MaxGuards)
    /\ state = Shared(MaxGuards - 1)
    /\ NumLive(guards, "Ref") = MaxGuards - 1

\* C32: a thread waiting in with_lock changes neither the flag nor the
\* payload.  After a failed compare-exchange it only reads the flag, and it
\* goes back to the compare-exchange only when it has read UNLOCKED; the flag
\* changes only by a successful compare-exchange, from UNLOCKED to LOCKED, and
\* by the holder's unlock store, from LOCKED to UNLOCKED; the payload changes
\* only inside the holder's f.
C32_WaitingChangesNothing ==
    [][/\ \A t \in Threads :
             /\ (Waiting(t) /\ pc'[t] # pc[t] /\ pc'[t] # "f") =>
                   (locked' = locked /\ hist' = hist)
             /\ (Waiting(t) /\ pc'[t] = "f") =>
                   (pc[t] = "cas" /\ locked = UNLOCKED /\ locked' = LOCKED /\ hist' = hist)
             /\ pc[t] = "cas" => pc'[t] \in {"cas", "spin", "f"}
             /\ pc[t] = "spin" => pc'[t] \in {"spin", "cas"}
             /\ (pc[t] = "spin" /\ pc'[t] = "cas") => locked = UNLOCKED
       /\ locked' # locked =>
             \E t \in Threads :
                \/ /\ pc[t] = "cas" /\ pc'[t] = "f"
                   /\ locked = UNLOCKED /\ locked' = LOCKED
                \/ /\ pc[t] = "store" /\ Returned(t)'
                   /\ locked = LOCKED /\ locked' = UNLOCKED
       /\ hist' # hist =>
             \E t \in Threads :
                /\ pc[t] = "f_store" /\ pc'[t] = "store"
                /\ \A u \in Threads \ {t} : ~InCritical(u)
                /\ locked = LOCKED]_vars

\* a worker of the harness whose compare-exchange failed on the locked flag
\* reads the flag in the spin loop while another worker, in its second call,
\* has applied its closure and is about to unlock
C32_Witness ==
    /\ client = "test"
    /\ \E t, u \in Workers :
          /\ t # u
          /\ pc[t] = "spin"
          /\ pc[u] = "store"
          /\ iter[u] = 1
          /\ iter[t] = 0
          /\ ~spurious
          /\ locked = LOCKED

\* C33: if the closure f panics inside with_lock the unlock store is skipped:
\* from then on the flag stays LOCKED, no thread is or gets inside the
\* critical section, and every thread that is in or enters the loop of
\* with_lock stays in it.
C33_PanicLeavesLocked ==
    /\ []((\E t \in Threads : pc[t] = "unwound") =>
             /\ locked = LOCKED
             /\ \A u \in Threads : ~InCritical(u))
    /\ [][(\E t \in Threads : pc[t] = "unwound") =>
             /\ locked' = LOCKED
             /\ hist' = hist
             /\ \A u \in Threads :
                   /\ pc[u] = "unwound" => pc'[u] = "unwound"
                   /\ Waiting(u) => Waiting(u)'
                   /\ ~InCritical(u)'
                   /\ acq'[u] = acq[u] \/ acq'[u] = 0]_vars

\* the closure of one worker has panicked; the other workers, callers that
\* never stop calling, are in a call that has not acquired the lock and spin
\* on the flag
C33_Witness ==
    /\ client = "loop"
    /\ locked = LOCKED
    /\ \E t \in Workers :
          /\ pc[t] = "unwound"
          /\ \A u \in Workers \ {t} :
                pc[u] = "spin" /\ acq[u] = 0 /\ ret[u] = NoValue /\ fn[u] = "get"

\* C34: the spin lock is not re-entrant: a thread that calls with_lock from
\* inside a closure running under with_lock on the same Mutex stays in the
\* loop of the nested call for ever: the nested call never acquires the lock
\* and never returns, so the outer call never stores UNLOCKED and never
\* returns either, and the flag stays LOCKED.
C34_NotReentrant ==
    /\ [](\A t \in Threads :
             fn[t] = "inner" =>
                /\ Waiting(t)
                /\ locked = LOCKED
                /\ acq[t] = 1
                /\ stores[t] = 0
                /\ ret[t] = NoValue
                /\ \A u \in Threads : ~InCritical(u))
    /\ [][\A t \in Threads :
             fn[t] = "inner" => (fn'[t] = "inner" /\ locked' = LOCKED /\ hist' = hist)]_vars

\* a worker has called with_lock from inside its closure, its nested
\* compare-exchange has failed and it spins on the flag it holds itself,
\* while another worker spins as well
C34_Witness ==
    \E t, u \in Workers :
       /\ t # u
       /\ fn[t] = "inner"
       /\ pc[t] = "spin"
       /\ applied[t] = 1
       /\ pc[u] = "spin"
       /\ acq[u] = 0

\* C35: Rc::clone does not check the refcount for overflow.  With wrapping
\* arithmetic of RcWidth bits and handles that are leaked instead of dropped,
\* the refcount of a live block is the number of its handles, live and
\* leaked, modulo 2^RcWidth, so that 2^RcWidth clones bring it back to its
\* earlier value; a drop deallocates the block exactly when it reads a
\* refcount of 1, whether or not other handles to the block are live.
C35_RefcountWraps ==
    /\ \A b \in BlockIds :
          blocks[b].st = "live" =>
             blocks[b].refcount =
                (Cardinality(HandlesOf(handles, b)) + leaked[b]) % RcModulus
    /\ rcOp.op = "clone" /\ preBlocks[preHandles[rcOp.src]].st = "live" =>
          /\ blocks[preHandles[rcOp.src]].st = "live"
          /\ preBlocks[preHandles[rcOp.src]].refcount = RcModulus - 1 =>
                blocks[preHandles[rcOp.src]].refcount = 0
    /\ rcOp.op = "drop" /\ preBlocks[preHandles[rcOp.src]].st = "live" =>
          (blocks[preHandles[rcOp.src]].st = "freed"
              <=> preBlocks[preHandles[rcOp.src]].refcount = 1)

\* a block was cloned 2^RcWidth times and all but the last of these clones
\* were leaked, which brought its refcount back to 1; the drop of one of
\* the two handles still held has deallocated the block while a clone is live
C35_Witness ==
    \E b \in BlockIds :
       /\ rcOp.op = "drop"
       /\ preHandles[rcOp.src] = b
       /\ preBlocks[b].refcount = 1
       /\ leaked[b] = RcModulus - 1
       /\ blocks[b].st = "freed"
       /\ \E h \in HandlesOf(handles, b) : origin[h] = "clone"
       /\ Cardinality(HandlesOf(preHandles, b)) = 2
       /\ ~uaf

\* C36: split_off keeps the lengths accurate: for a list of length len and
\* at <= len, after other = list.split_off(at) list.len() is at, other.len()
\* is len - at, and list.is_empty() holds exactly when at is 0.
C36_SplitOffKeepsLengths ==
    [][(listOp' = "split_off" /\ listAt' <= ListLen(list)) =>
          /\ ~listPanicked'
          /\ ListLen(list') = listAt'
          /\ ListLen(other') = ListLen(list) - listAt'
          /\ IsEmpty(list') <=> listAt' = 0]_vars

\* the addresses a backward walk from p visits; fuel stops a walk in a cycle
RECURSIVE BackPath(_, _, _)
BackPath(ns, p, fuel) ==
    IF p = Null \/ fuel = 0 THEN <<>>
    ELSE <<p>> \o BackPath(ns, ns[p].prev, fuel - 1)

\* the link invariant of one list
Linked(l, ns) ==
    /\ l.head = Null <=> l.tail = Null
    /\ l.head # Null =>
          LET fwd == Path(ns, l.head, MaxNodes + 1)
              bwd == BackPath(ns, l.tail, MaxNodes + 2)
          IN /\ \A k \in 1..Len(fwd) : ~Dangling(ns, fwd[k])
             /\ ns[l.head].prev = Null
             /\ ns[l.tail].next = Null
             /\ Len(fwd) <= MaxNodes
             /\ fwd[Len(fwd)] = l.tail
             /\ \A k \in 1..(Len(fwd) - 1) : ns[fwd[k + 1]].prev = fwd[k]
             /\ bwd = Reverse(fwd)

\* C37: after any sequence of push_front, push_back, pop_front, pop_back and
\* split_off, in the list and in the list split_off returned, head is None
\* exactly when tail is None; otherwise head.prev and tail.next are None,
\* following next from head reaches tail, and n.next.prev is n for every node
\* with a successor, so that the backward walk from tail is the reverse of
\* the forward walk from head.  No freed node is dereferenced.
C37_LinkInvariant ==
    /\ ~listUb
    /\ Linked(list, nodes)
    /\ Linked(other, nodes)

\* split_off(1) has cut a list of MaxNodes elements behind its first node
C37_Witness ==
    /\ listOp = "split_off"
    /\ listAt = 1
    /\ ~listPanicked
    /\ Len(preModel) = MaxNodes
    /\ list.head # Null
    /\ list.head = list.tail
    /\ other.head # Null
    /\ other.head # other.tail
    /\ Len(Path(nodes, other.head, MaxNodes + 1)) = MaxNodes - 1

====
